---------------------------- MODULE Spec2Model ----------------------------
(***************************************************************************)
(* Vyntra workflow engine: the shared document schema (workflowDocSchema), *)
(* the browser store and its persisting actions, the semantic edit layer,  *)
(* the browser simulator (simulateWorkflow) and the run-workflow edge      *)
(* function, as one state machine.                                         *)
(*                                                                         *)
(* Conventions of the model:                                               *)
(*  - a JSON value is a record [t, n, s, o]: t is the JS type tag, n the   *)
(*    number in hundredths (0.92 is 92), s the string, o the own           *)
(*    properties of an object (a function from keys to values);            *)
(*  - a JSONPath string is kept as what tokenizeJsonPath makes of it: a    *)
(*    flag for the leading "$" and the token sequence;                     *)
(*  - a condition expression string is kept as what the regular expression *)
(*    of evaluateConditionExpression makes of it: whether it matched, the  *)
(*    two operands and the operator.                                       *)
(***************************************************************************)
EXTENDS Integers, Sequences, FiniteSets, TLC

(***************************************************************************)
(* Bounds of the model.                                                    *)
(***************************************************************************)
\* patchNode edits per page session; one semantic command may follow them
MaxEdits == 1
\* the monthly run limit the function is deployed with
RUN_WORKFLOW_MONTHLY_LIMIT == 2

(***************************************************************************)
(* JSON values.                                                            *)
(***************************************************************************)
NoProps == <<>>
Undef == [t |-> "undefined", n |-> 0, s |-> "", o |-> NoProps]
Null == [t |-> "null", n |-> 0, s |-> "", o |-> NoProps]
Num(n) == [t |-> "number", n |-> n, s |-> "", o |-> NoProps]
Str(s) == [t |-> "string", n |-> 0, s |-> s, o |-> NoProps]
Bool(b) == [t |-> "boolean", n |-> IF b THEN 1 ELSE 0, s |-> "", o |-> NoProps]
Obj(f) == [t |-> "object", n |-> 0, s |-> "", o |-> f]
NaN == [t |-> "NaN", n |-> 0, s |-> "", o |-> NoProps]
Arr(elements) == [t |-> "array", n |-> 0, s |-> "", o |-> elements]
EmptyObj == Obj(NoProps)

\* typeof v === "string" && v (a non-empty string)
IsString(v) == v.t = "string"

(***************************************************************************)
(* Path Resolver.                                                          *)
(***************************************************************************)
\* a path string: given = FALSE is a missing (undefined) path, dollar is
\* path.startsWith("$"), toks what tokenizeJsonPath makes of it
Path(toks) == [given |-> TRUE, dollar |-> TRUE, toks |-> toks]
NoPath == [given |-> FALSE, dollar |-> FALSE, toks |-> <<>>]
BarePath(toks) == [given |-> TRUE, dollar |-> FALSE, toks |-> toks]

\* the tokens /^\d+$/ accepts, with Number(token)
IndexTokens == {<<"0", 0>>, <<"1", 1>>, <<"2", 2>>}
IsIndex(token) == \E p \in IndexTokens : p[1] = token
IndexOf(token) == (CHOOSE p \in IndexTokens : p[1] = token)[2]

\* the properties every object inherits, which the in operator finds too
InheritedProperties == {"constructor", "toString"}
Inherited == [t |-> "function", n |-> 0, s |-> "", o |-> <<>>]

\* the walk over own properties and elements only
RECURSIVE walkOwn(_, _)
walkOwn(current, toks) ==
  IF toks = <<>> THEN current
  ELSE LET token == Head(toks)
       IN CASE current.t = "array" /\ IsIndex(token) ->
                 IF IndexOf(token) + 1 \in DOMAIN current.o
                 THEN walkOwn(current.o[IndexOf(token) + 1], Tail(toks))
                 ELSE walkOwn(Undef, Tail(toks))
            [] current.t = "object" /\ token \in DOMAIN current.o ->
                 walkOwn(current.o[token], Tail(toks))
            [] OTHER -> Undef

RECURSIVE walk(_, _)
walk(current, toks) ==
  IF toks = <<>> THEN current
  ELSE LET token == Head(toks)
       IN CASE current.t = "array" /\ IsIndex(token) ->
                 \* current[Number(token)], undefined past the end
                 IF IndexOf(token) + 1 \in DOMAIN current.o
                 THEN walk(current.o[IndexOf(token) + 1], Tail(toks))
                 ELSE walk(Undef, Tail(toks))
            [] current.t = "array" /\ token = "length" -> walk(Num(100 * Len(current.o)), Tail(toks))
            [] current.t = "object" /\ token \in DOMAIN current.o ->
                 walk(current.o[token], Tail(toks))
            [] current.t \in {"object", "array"} /\ token \in InheritedProperties ->
                 walk(Inherited, Tail(toks))
            [] OTHER -> Undef

resolveJsonPath(input, path) ==
  IF ~path.given \/ (path.dollar /\ path.toks = <<>>) THEN input
  ELSE IF ~path.dollar THEN Undef
  ELSE walk(input, path.toks)

\* a path as the string it is written as: its characters in order
RECURSIVE Join(_)
Join(chars) == IF chars = <<>> THEN "" ELSE Head(chars) \o Join(Tail(chars))

\* the longest prefix of chars made of characters of the set
RECURSIVE Run(_, _)
Run(chars, set) ==
  IF chars = <<>> \/ Head(chars) \notin set THEN <<>>
  ELSE <<Head(chars)>> \o Run(Tail(chars), set)

Drop(chars, k) == SubSeq(chars, k + 1, Len(chars))
PathChars == {"$", ".", "[", "]", "'", "0", "1", "2", "a", "b", "x",
              "c", "o", "n", "s", "t", "r", "u"}
DigitChars == {"0", "1", "2"}

\* the matches of
\*   /([^[.\]]+)|\[(\d+|"(?:[^"\\]|\\.)*"|'(?:[^'\\]|\\.)*')\]/g
\* from left to right: a run of plain characters, a bracketed index, a
\* bracketed quoted name; any other character is passed over
RECURSIVE Matches(_)
Matches(chars) ==
  IF chars = <<>> THEN <<>>
  ELSE LET plain == Run(chars, PathChars \ {"[", ".", "]"})
           digits == Run(Tail(chars), DigitChars)
           quoted == IF Len(chars) >= 2 /\ chars[2] = "'"
                     THEN Run(Drop(chars, 2), PathChars \ {"'"}) ELSE <<>>
       IN CASE plain # <<>> -> <<Join(plain)>> \o Matches(Drop(chars, Len(plain)))
            [] Head(chars) = "[" /\ digits # <<>> /\ Len(chars) >= Len(digits) + 2
               /\ chars[Len(digits) + 2] = "]" ->
                 <<Join(digits)>> \o Matches(Drop(chars, Len(digits) + 2))
            [] Head(chars) = "[" /\ Len(chars) >= Len(quoted) + 4 /\ chars[2] = "'"
               /\ chars[Len(quoted) + 3] = "'" /\ chars[Len(quoted) + 4] = "]" ->
                 <<Join(quoted)>> \o Matches(Drop(chars, Len(quoted) + 4))
            [] OTHER -> Matches(Tail(chars))

\* path.replace(/^\$\./, "").replace(/^\$/, ""), then the matches
tokenizeJsonPath(chars) ==
  LET normalized == IF Len(chars) >= 2 /\ chars[1] = "$" /\ chars[2] = "."
                    THEN LET rest == Drop(chars, 2)
                         IN IF rest # <<>> /\ Head(rest) = "$" THEN Tail(rest) ELSE rest
                    ELSE IF chars # <<>> /\ Head(chars) = "$" THEN Tail(chars) ELSE chars
  IN Matches(normalized)

\* the path record of a string: "" is falsy, as a missing path is
ParsePath(chars) ==
  [given |-> chars # <<>>, dollar |-> chars # <<>> /\ Head(chars) = "$",
   toks |-> tokenizeJsonPath(chars)]

(***************************************************************************)
(* Expression Evaluator.                                                   *)
(***************************************************************************)
PathOperand(toks) == [isPath |-> TRUE, toks |-> toks, lit |-> Undef]
LitOperand(v) == [isPath |-> FALSE, toks |-> <<>>, lit |-> v]
Expr(l, op, r) == [matched |-> TRUE, left |-> l, op |-> op, right |-> r]
Malformed == [matched |-> FALSE, left |-> LitOperand(Undef), op |-> "", right |-> LitOperand(Undef)]

resolveOperand(ctx, raw) ==
  IF raw.isPath THEN resolveJsonPath(ctx, Path(raw.toks)) ELSE raw.lit

\* the numeric strings of the model, with their values in hundredths
NumericStrings == {<<"", 0>>, <<"1", 100>>, <<"0.5", 50>>}

\* Number(s) on a string
StringToNumber(s) ==
  IF \E p \in NumericStrings : p[1] = s
  THEN Num((CHOOSE p \in NumericStrings : p[1] = s)[2])
  ELSE NaN

\* Number(x)
\* a coercion that takes numbers only: everything else is NaN
ToNumberOfNumbersOnly(v) == IF v.t = "number" THEN v ELSE NaN

ToNumber(v) ==
  CASE v.t = "number" -> v
    [] v.t = "boolean" -> Num(v.n * 100)
    [] v.t = "null" -> Num(0)
    [] v.t = "string" -> StringToNumber(v.s)
    [] v.t = "array" ->
         \* Number(String(array)): the elements joined by commas
         IF v.o = <<>> THEN Num(0)
         ELSE IF Len(v.o) > 1 THEN NaN
         ELSE CASE v.o[1].t = "number" -> v.o[1]
                [] v.o[1].t \in {"null", "undefined"} -> Num(0)
                [] v.o[1].t = "string" -> StringToNumber(v.o[1].s)
                [] OTHER -> NaN
    [] OTHER -> NaN

\* left === right on the values of the model (objects compare by reference:
\* two operands are the same object only if they are the same resolved value)
StrictEq(a, b) == a.t # "NaN" /\ a = b

\* the evaluator failing open: an expression that does not match is true
evaluateUnmatchedAsTrue(ctx, expression) == ~expression.matched

evaluateConditionExpression(ctx, expression) ==
  IF ~expression.matched THEN FALSE
  ELSE LET left == resolveOperand(ctx, expression.left)
           right == resolveOperand(ctx, expression.right)
           ln == ToNumber(left)
           rn == ToNumber(right)
           both == ln.t = "number" /\ rn.t = "number"
       IN CASE expression.op = "==" -> StrictEq(left, right)
            [] expression.op = "!=" -> ~StrictEq(left, right)
            [] expression.op = ">" -> both /\ ln.n > rn.n
            [] expression.op = "<" -> both /\ ln.n < rn.n
            [] expression.op = ">=" -> both /\ ln.n >= rn.n
            [] expression.op = "<=" -> both /\ ln.n <= rn.n
            [] OTHER -> FALSE

(***************************************************************************)
(* Workflow documents.                                                     *)
(***************************************************************************)
allowedNodeTypes ==
  {"trigger.manual", "trigger.webhook", "trigger.schedule", "trigger.file_upload",
   "ai.summarize", "ai.classify", "ai.extract_fields", "ai.generate_report",
   "logic.condition", "logic.delay", "output.db_save", "output.export"}

triggerNodeTypes ==
  {"trigger.manual", "trigger.webhook", "trigger.schedule", "trigger.file_upload"}

\* a node config with every key the executors read absent
NoConfig ==
  [input_path |-> NoPath, output_key |-> Undef, table |-> Undef,
   default_output |-> Undef, expression |-> Malformed, sample_input |-> Undef,
   format |-> Undef, labels |-> <<>>, confidence_key |-> Undef,
   sample_payload |-> Undef, payload |-> Undef, filename |-> Undef, fields |-> <<>>]

Node(id, type, inputs, outputs, config) ==
  [id |-> id, type |-> type, inputs |-> inputs, outputs |-> outputs, config |-> config]

Edge(id, sn, sp, tn, tp) ==
  [id |-> id, source |-> [node_id |-> sn, port_id |-> sp],
   target |-> [node_id |-> tn, port_id |-> tp]]

Doc(version, entry, nodes, edges) ==
  [schema_version |-> version,
   workflow |-> [entry_node_id |-> entry, nodes |-> nodes, edges |-> edges]]

\* the store's `current: null`
NoDoc == Doc("", "", <<>>, <<>>)

SeqToSet(s) == {s[i] : i \in DOMAIN s}
NodeIds(doc) == {doc.workflow.nodes[i].id : i \in DOMAIN doc.workflow.nodes}

\* nodes.find((n) => n.id === id): the first node with that id
HasNode(doc, id) == id \in NodeIds(doc)
FindNode(doc, id) ==
  LET ns == doc.workflow.nodes
      i == CHOOSE k \in DOMAIN ns : ns[k].id = id /\ \A j \in 1..(k - 1) : ns[j].id # id
  IN ns[i]

\* new Map(nodes.map((n) => [n.id, n])).get(id): the last node with that id
NodesById(doc, id) ==
  LET ns == doc.workflow.nodes
      i == CHOOSE k \in DOMAIN ns : ns[k].id = id /\ \A j \in (k + 1)..Len(ns) : ns[j].id # id
  IN ns[i]

(***************************************************************************)
(* Document Validator: workflowDocSchema and validateWorkflowDoc.          *)
(* An issue is <<message, id>>, the id of the node or edge it names.       *)
(***************************************************************************)
When(c, issue) == IF c THEN {issue} ELSE {}

\* the zod object parse; an invalid literal or enum value aborts the parse
\* (superRefine does not run), a failed min(1) only marks it dirty
SchemaAborted(doc) ==
  \/ doc.schema_version # "1.0"
  \/ \E i \in DOMAIN doc.workflow.nodes : doc.workflow.nodes[i].type \notin allowedNodeTypes

SchemaIssues(doc) ==
  LET ns == doc.workflow.nodes
      es == doc.workflow.edges
  IN When(doc.schema_version # "1.0", <<"Invalid literal value, expected 1.0", "">>)
     \cup {<<"Invalid enum value", ns[i].id>> : i \in {k \in DOMAIN ns : ns[k].type \notin allowedNodeTypes}}
     \cup When(ns = <<>>, <<"Array must contain at least 1 element(s)", "nodes">>)
     \cup {<<"Array must contain at least 1 element(s)", ns[i].id>> : i \in {k \in DOMAIN ns : ns[k].outputs = <<>>}}
     \cup {<<"String must contain at least 1 character(s)", ns[i].id>> :
             i \in {k \in DOMAIN ns : ns[k].id = "" \/ "" \in SeqToSet(ns[k].inputs) \cup SeqToSet(ns[k].outputs)}}
     \cup {<<"String must contain at least 1 character(s)", es[i].id>> :
             i \in {k \in DOMAIN es : "" \in {es[k].id, es[k].source.node_id, es[k].source.port_id,
                                              es[k].target.node_id, es[k].target.port_id}}}
     \cup When(doc.workflow.entry_node_id = "", <<"String must contain at least 1 character(s)", "entry_node_id">>)

\* a filter that stops at the first trigger node it finds
FirstTriggerNode(doc) ==
  LET found == SelectSeq(doc.workflow.nodes, LAMBDA n : n.type \in triggerNodeTypes)
  IN IF found = <<>> THEN <<>> ELSE <<found[1]>>

TriggerNodes(doc) ==
  SelectSeq(doc.workflow.nodes, LAMBDA n : n.type \in triggerNodeTypes)

\* the checks on the trigger nodes and on entry_node_id
TriggerIssues(doc) ==
  LET triggerNodes == TriggerNodes(doc)
  IN When(Len(triggerNodes) # 1, <<"Exactly one trigger node is required.", "">>)
     \cup When(triggerNodes # <<>> /\ doc.workflow.entry_node_id # triggerNodes[1].id, <<"entry_node_id must point to the trigger node.", "">>)

\* a callback that keeps no set of the ids it has seen
NoDuplicateIssues(doc) == {}

\* nodeIds.has(n.id), edgeIds.has(e.id)
DuplicateIssues(doc) ==
  LET ns == doc.workflow.nodes
      es == doc.workflow.edges
  IN {<<"Duplicate node id", ns[i].id>> : i \in {k \in DOMAIN ns : \E j \in 1..(k - 1) : ns[j].id = ns[k].id}}
     \cup {<<"Duplicate edge id", es[i].id>> : i \in {k \in DOMAIN es : \E j \in 1..(k - 1) : es[j].id = es[k].id}}

\* the input ports of trigger and non-trigger nodes
InputIssues(doc) ==
  LET ns == doc.workflow.nodes
  IN {<<"Trigger node must have no inputs.", ns[i].id>> :
             i \in {k \in DOMAIN ns : ns[k].type \in triggerNodeTypes /\ Len(ns[k].inputs) # 0}}
     \cup {<<"Non-trigger node must have at least one input.", ns[i].id>> :
             i \in {k \in DOMAIN ns : ns[k].type \notin triggerNodeTypes /\ Len(ns[k].inputs) < 1}}

\* a callback without the branch for logic.condition
NoConditionIssues(doc) == {}

\* if (n.type === "logic.condition")
ConditionIssues(doc) ==
  LET ns == doc.workflow.nodes
  IN {<<"Condition node must have at least two outputs.", ns[i].id>> :
             i \in {k \in DOMAIN ns : ns[k].type = "logic.condition" /\ Len(ns[k].outputs) < 2}}
     \cup {<<"Condition node default_output must match an output port id.", ns[i].id>> :
             i \in {k \in DOMAIN ns : /\ ns[k].type = "logic.condition"
                                      /\ \/ ~IsString(ns[k].config.default_output)
                                         \/ ns[k].config.default_output.s \notin SeqToSet(ns[k].outputs)}}

\* a loop over the edges that looks up the nodes and not their ports
EdgeNodeIssues(doc) ==
  LET es == doc.workflow.edges
  IN {<<"Edge source node not found.", es[i].id>> :
             i \in {k \in DOMAIN es : ~HasNode(doc, es[k].source.node_id)}}
     \cup {<<"Edge target node not found.", es[i].id>> :
             i \in {k \in DOMAIN es : ~HasNode(doc, es[k].target.node_id)}}

\* the loop over the edges: source and target node, source and target port
EdgeIssues(doc) ==
  LET es == doc.workflow.edges
  IN {<<"Edge source node not found.", es[i].id>> :
             i \in {k \in DOMAIN es : ~HasNode(doc, es[k].source.node_id)}}
     \cup {<<"Edge source port must reference an output port.", es[i].id>> :
             i \in {k \in DOMAIN es : /\ HasNode(doc, es[k].source.node_id)
                                      /\ es[k].source.port_id \notin
                                           SeqToSet(FindNode(doc, es[k].source.node_id).outputs)}}
     \cup {<<"Edge target node not found.", es[i].id>> :
             i \in {k \in DOMAIN es : ~HasNode(doc, es[k].target.node_id)}}
     \cup {<<"Edge target port must reference an input port.", es[i].id>> :
             i \in {k \in DOMAIN es : /\ HasNode(doc, es[k].target.node_id)
                                      /\ es[k].target.port_id \notin
                                           SeqToSet(FindNode(doc, es[k].target.node_id).inputs)}}

\* the superRefine callback
RefineIssues(doc) ==
  TriggerIssues(doc) \cup DuplicateIssues(doc) \cup InputIssues(doc) \cup ConditionIssues(doc)
    \cup EdgeIssues(doc)

workflowDocSchema(doc) ==
  SchemaIssues(doc) \cup (IF SchemaAborted(doc) THEN {} ELSE RefineIssues(doc))

validateWorkflowDoc(input) ==
  LET issues == workflowDocSchema(input)
  IN [ok |-> issues = {}, errors |-> issues]

(***************************************************************************)
(* Graph Scheduler: topo (Kahn's algorithm with a FIFO queue).             *)
(***************************************************************************)
\* the keys of the indeg map: the node ids, then the edge targets that are
\* no node
IndegKeys(doc) ==
  NodeIds(doc) \cup {doc.workflow.edges[i].target.node_id : i \in DOMAIN doc.workflow.edges}

InitialIndeg(doc) ==
  [id \in IndegKeys(doc) |->
     Cardinality({i \in DOMAIN doc.workflow.edges : doc.workflow.edges[i].target.node_id = id})]

\* adj.get(id) ?? []: the targets of the edges leaving id, in edge order
Adj(doc, id) ==
  LET out == SelectSeq(doc.workflow.edges, LAMBDA e : e.source.node_id = id)
  IN [i \in DOMAIN out |-> out[i].target.node_id]

\* the unique node ids in the order of their first occurrence
RECURSIVE UniqueIds(_, _)
UniqueIds(ns, seen) ==
  IF ns = <<>> THEN <<>>
  ELSE IF Head(ns).id \in seen THEN UniqueIds(Tail(ns), seen)
       ELSE <<Head(ns).id>> \o UniqueIds(Tail(ns), seen \cup {Head(ns).id})

\* for (const nxt of adj.get(id) ?? []): returns <<indeg, q>>
RECURSIVE Relax(_, _, _)
Relax(nxts, indeg, q) ==
  IF nxts = <<>> THEN <<indeg, q>>
  ELSE LET nxt == Head(nxts)
           d == indeg[nxt] - 1
       IN Relax(Tail(nxts), [indeg EXCEPT ![nxt] = d], IF d = 0 THEN Append(q, nxt) ELSE q)

\* while (q.length): the ids of `ordered`
RECURSIVE Kahn(_, _, _, _)
Kahn(doc, q, indeg, ordered) ==
  IF q = <<>> THEN ordered
  ELSE LET id == Head(q)
           r == Relax(Adj(doc, id), indeg, Tail(q))
       IN Kahn(doc, r[2], r[1], IF HasNode(doc, id) THEN Append(ordered, id) ELSE ordered)

\* the nodes in the order of their declaration, whatever the edges
declaredOrder(doc) == UniqueIds(doc.workflow.nodes, {})

topo(doc) ==
  LET indeg == InitialIndeg(doc)
      q == SelectSeq(UniqueIds(doc.workflow.nodes, {}), LAMBDA id : indeg[id] = 0)
  IN Kahn(doc, q, indeg, <<>>)

(***************************************************************************)
(* The documents of the model: the fixtures of the repository's smoke      *)
(* tests and small graphs for each shape of the engine's control flow.     *)
(***************************************************************************)
ManualTrigger(sample) ==
  Node("n1", "trigger.manual", <<>>, <<"out">>, [NoConfig EXCEPT !.sample_input = sample])

\* baseDoc of the smoke tests: trigger -> summarize -> export
baseDoc ==
  Doc("1.0", "n1",
      <<ManualTrigger(EmptyObj),
        Node("n2", "ai.summarize", <<"in">>, <<"out">>,
             [NoConfig EXCEPT !.input_path = Path(<<"input">>), !.output_key = Str("summary")]),
        Node("n3", "output.export", <<"in">>, <<"out">>,
             [NoConfig EXCEPT !.format = Str("json"), !.input_path = Path(<<"summary">>)])>>,
      <<Edge("e1", "n1", "out", "n2", "in"), Edge("e2", "n2", "out", "n3", "in")>>)

\* cyc of the smoke tests: baseDoc plus the edge n3 -> n2
cyc ==
  [baseDoc EXCEPT !.workflow.edges = Append(@, Edge("e3", "n3", "out", "n2", "in"))]

\* failureWorkflowDoc of the live smoke script
failureWorkflowDoc ==
  Doc("1.0", "n1",
      <<ManualTrigger(Obj([k \in {"text"} |-> Str("force failure")])),
        Node("n2", "output.db_save", <<"in">>, <<"out">>,
             [NoConfig EXCEPT !.table = Str("definitely_missing_table")])>>,
      <<Edge("e1", "n1", "out", "n2", "in")>>)

\* trigger -> db_save (va_items) -> export
saveExportDoc ==
  Doc("1.0", "n1",
      <<ManualTrigger(Obj([k \in {"text"} |-> Str("weekly reporting")])),
        Node("n2", "output.db_save", <<"in">>, <<"out">>, [NoConfig EXCEPT !.table = Str("va_items")]),
        Node("n3", "output.export", <<"in">>, <<"out">>,
             [NoConfig EXCEPT !.format = Str("csv"), !.input_path = Path(<<"input">>)])>>,
      <<Edge("e1", "n1", "out", "n2", "in"), Edge("e2", "n2", "out", "n3", "in")>>)

\* "$.input.score > 0.8"
ScoreAbove == Expr(PathOperand(<<"input", "score">>), ">", LitOperand(Num(80)))

\* trigger -> condition; true -> db_save, false -> export
branchDoc ==
  Doc("1.0", "n1",
      <<ManualTrigger(Obj([k \in {"score"} |-> Num(90)])),
        Node("n2", "logic.condition", <<"in">>, <<"true", "false">>,
             [NoConfig EXCEPT !.expression = ScoreAbove, !.default_output = Str("false")]),
        Node("n3", "output.db_save", <<"in">>, <<"out">>, [NoConfig EXCEPT !.table = Str("va_items")]),
        Node("n4", "output.export", <<"in">>, <<"out">>, [NoConfig EXCEPT !.format = Str("json")])>>,
      <<Edge("e1", "n1", "out", "n2", "in"), Edge("e2", "n2", "true", "n3", "in"),
        Edge("e3", "n2", "false", "n4", "in")>>)

\* a condition node whose two output ports carry the same id
samePortDoc ==
  Doc("1.0", "n1",
      <<ManualTrigger(Obj([k \in {"score"} |-> Num(90)])),
        Node("n2", "logic.condition", <<"in">>, <<"a", "a">>,
             [NoConfig EXCEPT !.expression = ScoreAbove, !.default_output = Str("a")]),
        Node("n3", "logic.delay", <<"in">>, <<"out">>, NoConfig)>>,
      <<Edge("e1", "n1", "out", "n2", "in"), Edge("e2", "n2", "a", "n3", "in")>>)

\* the trigger fans out to a report node that reads a key nobody wrote and
\* to a delay node; a fourth node has no incoming edge
fanOutDoc ==
  Doc("1.0", "n1",
      <<ManualTrigger(EmptyObj),
        Node("n2", "ai.generate_report", <<"in">>, <<"out">>,
             [NoConfig EXCEPT !.input_path = Path(<<"summary">>)]),
        Node("n3", "logic.delay", <<"in">>, <<"out">>, NoConfig),
        Node("n4", "output.export", <<"in">>, <<"out">>, NoConfig)>>,
      <<Edge("e1", "n1", "out", "n2", "in"), Edge("e2", "n1", "out", "n3", "in")>>)

\* a definition that does not pass the schema: a condition node without
\* output ports and without default_output, an edge leaving a port it has not
portlessDoc ==
  Doc("1.0", "n1",
      <<ManualTrigger(EmptyObj),
        Node("n2", "logic.condition", <<"in">>, <<>>, NoConfig),
        Node("n3", "output.db_save", <<"in">>, <<"out">>, NoConfig)>>,
      <<Edge("e1", "n1", "out", "n2", "in"), Edge("e2", "n2", "x", "n3", "in")>>)

\* what a template row, a script or any client of the table may insert
\* branchDoc with an expression that does not match the grammar
malformedDoc ==
  [branchDoc EXCEPT !.workflow.nodes[2].config.expression = Malformed]

\* branchDoc with "$.input.vip >= 1", an ordering comparison on a boolean of
\* the payload
orderingDoc ==
  [branchDoc EXCEPT !.workflow.nodes[1].config.sample_input = Obj([k \in {"vip"} |-> Bool(TRUE)]),
                    !.workflow.nodes[2].config.expression =
                      Expr(PathOperand(<<"input", "vip">>), ">=", LitOperand(Num(100)))]

\* the head of the Client Intake Processor template: a webhook trigger whose
\* config has a null sample_input, a sample_payload and a payload
intakeDoc ==
  Doc("1.0", "n1",
      <<Node("n1", "trigger.webhook", <<>>, <<"out">>,
             [NoConfig EXCEPT !.sample_input = Null,
                              !.sample_payload = Obj([k \in {"client_name"} |-> Str("Acme")]),
                              !.payload = Obj([k \in {"text"} |-> Str("weekly reporting")])]),
        Node("n2", "ai.summarize", <<"in">>, <<"out">>,
             [NoConfig EXCEPT !.input_path = Path(<<"input">>), !.output_key = Str("summary")])>>,
      <<Edge("e1", "n1", "out", "n2", "in")>>)

\* documents that break one rule of the validator each: a second trigger,
\* an entry that is not the trigger, a condition with one output, an edge
\* from a port its source has not, an edge to a node that is not there, two
\* nodes with one id, two edges with one id
RuleBreakers ==
  {[baseDoc EXCEPT !.workflow.nodes =
      Append(@, Node("n4", "trigger.schedule", <<>>, <<"out">>, NoConfig))],
   [baseDoc EXCEPT !.workflow.entry_node_id = "n2"],
   [branchDoc EXCEPT !.workflow.nodes[2].outputs = <<"false">>,
                     !.workflow.edges = <<@[1], @[3]>>],
   [baseDoc EXCEPT !.workflow.edges[2].source.port_id = "nope"],
   [baseDoc EXCEPT !.workflow.edges[2].target.node_id = "n9"],
   [baseDoc EXCEPT !.workflow.nodes =
      Append(@, Node("n3", "logic.delay", <<"in">>, <<"out">>, NoConfig))],
   [baseDoc EXCEPT !.workflow.edges[2].id = "e1"]}

\* badExport of the smoke tests: baseDoc with the export format "xml"
badExport ==
  [baseDoc EXCEPT !.workflow.nodes[3].config.format = Str("xml")]

\* trigger, classify on the text of the payload, db_save
classifyDoc ==
  Doc("1.0", "n1",
      <<ManualTrigger(Obj([k \in {"text"} |-> Str("lead triage")])),
        Node("n2", "ai.classify", <<"in">>, <<"out">>,
             [NoConfig EXCEPT !.input_path = Path(<<"input", "text">>),
                              !.labels = <<"operations", "lead", "other">>,
                              !.output_key = Str("category"),
                              !.confidence_key = Str("category_confidence")]),
        Node("n3", "output.db_save", <<"in">>, <<"out">>, [NoConfig EXCEPT !.table = Str("va_items")])>>,
      <<Edge("e1", "n1", "out", "n2", "in"), Edge("e2", "n2", "out", "n3", "in")>>)

Definitions ==
  {baseDoc, cyc, failureWorkflowDoc, saveExportDoc, branchDoc, samePortDoc, fanOutDoc,
   portlessDoc, classifyDoc, badExport, malformedDoc, orderingDoc,
   intakeDoc} \cup RuleBreakers

\* the input_json / test input payloads of the model; Undef is "none given"
InputOverrides == {Undef, Obj([k \in {"score"} |-> Num(10)])}

(***************************************************************************)
(* Semantic edit layer.                                                    *)
(***************************************************************************)
\* the edge ids e<k>; Number(id.replace(/^e/, "")) on them is k
EdgeIdNames == <<"e1", "e2", "e3", "e4", "e5", "e6">>

EdgeIdNumber(id) ==
  IF \E k \in DOMAIN EdgeIdNames : EdgeIdNames[k] = id
  THEN CHOOSE k \in DOMAIN EdgeIdNames : EdgeIdNames[k] = id
  ELSE 0

SetMax(S) == IF S = {} THEN 0 ELSE CHOOSE m \in S : \A k \in S : k <= m

nextEdgeId(doc) ==
  EdgeIdNames[SetMax({EdgeIdNumber(doc.workflow.edges[i].id) : i \in DOMAIN doc.workflow.edges}) + 1]

\* connectNodes: NoDoc stands for null
connectNodes(doc, sourceRef, targetRef) ==
  IF ~HasNode(doc, sourceRef) \/ ~HasNode(doc, targetRef) THEN NoDoc
  ELSE LET source == FindNode(doc, sourceRef)
           target == FindNode(doc, targetRef)
       IN IF source.outputs = <<>> \/ target.inputs = <<>> THEN NoDoc
          ELSE [doc EXCEPT !.workflow.edges =
                  Append(@, Edge(nextEdgeId(doc), source.id, source.outputs[1],
                                 target.id, target.inputs[1]))]

\* the command applied without the call of the validator
applySemanticCommandUnchecked(doc, sourceRef, targetRef) ==
  LET candidate == connectNodes(doc, sourceRef, targetRef)
  IN [ok |-> candidate # NoDoc, message |-> "Connected.", workflow |-> candidate, errors |-> {}]

\* applySemanticCommand on "connect <sourceRef> to <targetRef>"
applySemanticCommand(doc, sourceRef, targetRef) ==
  LET candidate == connectNodes(doc, sourceRef, targetRef)
      check == validateWorkflowDoc(candidate)
  IN IF candidate = NoDoc
     THEN [ok |-> FALSE, message |-> "Could not connect nodes.", workflow |-> NoDoc, errors |-> {}]
     ELSE IF ~check.ok
     THEN [ok |-> FALSE, message |-> "Edit rejected by workflow validator.", workflow |-> NoDoc,
           errors |-> check.errors]
     ELSE [ok |-> TRUE, message |-> "Connected.", workflow |-> candidate, errors |-> {}]

(***************************************************************************)
(* Node executors.  A context is a function from its own keys to values.   *)
(***************************************************************************)
\* an assignment that starts from an empty object instead of the copy
PutIntoFresh(ctx, key, value) == (key :> value)

\* out[key] = value
Put(ctx, key, value) == (key :> value) @@ ctx

\* the context as the object the path resolver walks
AsObject(ctx) == Obj(ctx)

\* (config.input_path as string | undefined) ?? "$.input"
InputPath(config) == IF config.input_path.given THEN config.input_path ELSE Path(<<"input">>)

\* (config.output_key as string | undefined) ?? fallback
OutputKey(config, fallback) == IF config.output_key.t = "string" THEN config.output_key.s ELSE fallback

\* x ?? fallback
OrElse(x, fallback) == IF x.t \in {"undefined", "null"} THEN fallback ELSE x

\* JSON.stringify(x) is undefined, so that .slice on it throws a TypeError
StringifiesToUndefined(x) == x.t = "undefined"

\* the outcome of one executor: the updated context, or the error thrown,
\* the inserts it issued and the completion requests it sent
Returned(out) ==
  [threw |-> FALSE, error |-> "", out |-> out, inserts |-> <<>>, requests |-> <<>>]
Threw(error, ctx) ==
  [threw |-> TRUE, error |-> error, out |-> ctx, inserts |-> <<>>, requests |-> <<>>]

(***************************************************************************)
(* Classification.                                                         *)
(***************************************************************************)
\* s.toLowerCase() on the strings of the model
ToLowerCase(s) ==
  CASE s = "Lead" -> "lead"
    [] s = "Lead Triage" -> "lead triage"
    [] s = "Start" -> "start"
    [] s = "Export" -> "export"
    [] s = "N2" -> "n2"
    [] s = "N3" -> "n3"
    [] OTHER -> s

\* text.includes(label) on the lower-case strings of the model
Substrings == {<<"lead triage", "lead">>, <<"weekly reporting", "reporting">>}
Includes(text, label) == text = label \/ <<text, label>> \in Substrings \/ label = ""

\* JSON.stringify(input).toLowerCase() includes the label: the labels of the
\* model are words, found only inside the keys and the strings of the text
RECURSIVE StringifiedIncludes(_, _)
StringifiedIncludes(v, label) ==
  CASE v.t = "string" -> Includes(ToLowerCase(v.s), label)
    [] v.t = "object" ->
         \E k \in DOMAIN v.o :
           Includes(ToLowerCase(k), label) \/ StringifiedIncludes(v.o[k], label)
    [] OTHER -> label = ""

\* a.localeCompare(b) < 0 on the labels of the model: the collation puts a
\* lower-case letter before its capital, and both before the next letter
LabelOrder == <<"", "admin", "lead", "Lead", "operations", "other", "reporting">>
Rank(label) == CHOOSE i \in DOMAIN LabelOrder : LabelOrder[i] = label
Before(a, b) == Rank(a) < Rank(b)

\* the labels that are strings: config.labels.filter(typeof x === "string")
Labels(config) == config.labels

\* classifyText: score 2 for a label the text includes, else 1; sorted by
\* score, then by label; 0.92 on a hit, 0.67 otherwise
\* a classifier that sorts by label alone
classifyTextUnscored(input, labels) ==
  LET all == SeqToSet(labels)
      best == CHOOSE l \in all : \A m \in all : ~Before(m, l)
  IN IF labels = <<>> THEN [label |-> Str("general"), confidence |-> Num(67)]
     ELSE [label |-> Str(best), confidence |-> Num(67)]

classifyText(input, labels) ==
  LET score(l) == IF StringifiedIncludes(input, ToLowerCase(l)) THEN 2 ELSE 1
      all == SeqToSet(labels)
      best == CHOOSE l \in all :
                \A m \in all : score(m) < score(l) \/ (score(m) = score(l) /\ ~Before(m, l))
  IN IF labels = <<>> THEN [label |-> Str("general"), confidence |-> Num(67)]
     ELSE [label |-> Str(best), confidence |-> IF score(best) = 2 THEN Num(92) ELSE Num(67)]

\* what callOpenAIText and parseJsonObjectFromText make of one completion
\* request: no key and so no request, a transport error, a text with no JSON
\* object in it, or the label and confidence properties of the object
NotConfigured ==
  [sent |-> FALSE, ok |-> FALSE, parsed |-> FALSE, label |-> Undef, confidence |-> Undef]
TransportError ==
  [sent |-> TRUE, ok |-> FALSE, parsed |-> FALSE, label |-> Undef, confidence |-> Undef]
Unparseable ==
  [sent |-> TRUE, ok |-> TRUE, parsed |-> FALSE, label |-> Undef, confidence |-> Undef]
Reply(label, confidence) ==
  [sent |-> TRUE, ok |-> TRUE, parsed |-> TRUE, label |-> label, confidence |-> confidence]
Replies ==
  {NotConfigured, TransportError, Unparseable,
   Reply(Str("lead"), Num(150)), Reply(Str("operations"), Num(-20)),
   Reply(Str("lead"), Str("0.5")), Reply(Str("lead"), Str("high")),
   Reply(Str("spam"), Num(50)), Reply(Num(3), Num(50)), Reply(Str("other"), Undef)}

\* Math.max(0, Math.min(1, confidence)), in hundredths
Clamp(n) == IF n < 0 THEN 0 ELSE IF n > 100 THEN 100 ELSE n

\* classifyTextLive with the accepted confidence written as it came
classifyTextLiveUnclamped(input, labels, reply) ==
  IF labels = <<>> \/ ~reply.parsed THEN classifyText(input, labels)
  ELSE [label |-> reply.label, confidence |-> ToNumber(reply.confidence)]

\* classifyTextLive, once callOpenAIText has returned
classifyTextLive(input, labels, reply) ==
  IF labels = <<>> THEN classifyText(input, labels)
  ELSE IF ~reply.parsed THEN classifyText(input, labels)
  ELSE LET label == IF reply.label.t = "string" THEN reply.label.s ELSE ""
           confidence == IF reply.confidence.t = "number" THEN reply.confidence
                         ELSE ToNumber(reply.confidence)
       IN IF label \notin SeqToSet(labels) THEN classifyText(input, labels)
          ELSE IF confidence.t = "NaN" THEN classifyText(input, labels)
          ELSE [label |-> Str(label), confidence |-> Num(Clamp(confidence.n))]

\* (config.confidence_key as string | undefined) ?? "confidence"
ConfidenceKey(config) ==
  IF config.confidence_key.t = "string" THEN config.confidence_key.s ELSE "confidence"

\* out[output_key] = result.label; out[confidence_key] = result.confidence
PutResult(ctx, config, result) ==
  Put(Put(ctx, OutputKey(config, "label"), result.label), ConfidenceKey(config), result.confidence)

\* JSON.parse(JSON.stringify(v)) on one value: NaN becomes null, properties
\* whose value is undefined are dropped
RECURSIVE cloneValue(_)
cloneValue(v) ==
  CASE v.t = "NaN" -> Null
    [] v.t = "object" ->
         LET kept == {k \in DOMAIN v.o : v.o[k].t # "undefined"}
         IN Obj([k \in kept |-> cloneValue(v.o[k])])
    [] v.t = "array" ->
         Arr([k \in DOMAIN v.o |-> IF v.o[k].t = "undefined" THEN Null ELSE cloneValue(v.o[k])])
    [] OTHER -> v

\* deepClone / clone of a context
deepClone(ctx) == cloneValue(Obj(ctx)).o

(***************************************************************************)
(* Field extraction.  A field spec is [key, type], each a value.           *)
(***************************************************************************)
FieldSpec(key, type) == [key |-> key, type |-> type]

\* f?.key ?? "field", as the property name it becomes
FieldKey(f) == IF f.key.t = "string" THEN f.key.s ELSE "field"

\* the zero value of a declared type
ZeroOf(type) ==
  CASE type = Str("number") -> Num(0)
    [] type = Str("boolean") -> Bool(FALSE)
    [] type = Str("array") -> Arr(<<>>)
    [] OTHER -> Str("")

\* Object.fromEntries(entries): a later entry replaces an earlier one
FromEntries(keys, values) ==
  LET last(k) == CHOOSE i \in DOMAIN keys : keys[i] = k /\ \A j \in DOMAIN keys : keys[j] = k => j <= i
  IN Obj([k \in SeqToSet(keys) |-> values[last(k)]])

defaultExtractedFields(fields) ==
  FromEntries([i \in DOMAIN fields |-> FieldKey(fields[i])],
              [i \in DOMAIN fields |-> ZeroOf(fields[i].type)])

\* JSON.stringify(v) of a value that is not undefined, kept as the string
\* that carries the value it spells
Stringify(v) == [t |-> "string", n |-> 0, s |-> "stringify", o |-> <<cloneValue(v)>>]

\* Boolean(value)
ToBoolean(v) ==
  ~ \/ v.t \in {"undefined", "null", "NaN"}
    \/ (v.t \in {"number", "boolean"} /\ v.n = 0)
    \/ (v.t = "string" /\ v.s = "")

coerceFieldValue(value, type) ==
  CASE type = "number" ->
         LET n == IF value.t = "number" THEN value ELSE ToNumber(value)
         IN IF n.t = "NaN" THEN Num(0) ELSE n
    [] type = "boolean" -> Bool(ToBoolean(value))
    [] type = "array" ->
         IF value.t = "array" THEN value
         ELSE IF value.t \in {"undefined", "null"} THEN Arr(<<>>) ELSE Arr(<<value>>)
    [] OTHER -> IF value.t = "string" THEN value ELSE Stringify(OrElse(value, Str("")))

\* the parsed object of a reply, null when the text holds no JSON object
ParsedObject(reply) ==
  IF ~reply.parsed THEN Null
  ELSE Obj([k \in {j \in {"label", "confidence"} : reply[j].t # "undefined"} |-> reply[k]])

\* parsed[key]
Property(object, key) == IF key \in DOMAIN object.o THEN object.o[key] ELSE Undef

\* the live extraction that copies whatever the model returned
extractFieldsLiveUnfiltered(fields, parsed) == parsed

\* extractFieldsLive, once callOpenAIText has returned
extractFieldsLive(fields, parsed) ==
  IF fields = <<>> THEN EmptyObj
  ELSE IF parsed.t # "object" THEN defaultExtractedFields(fields)
  ELSE LET type(f) == IF f.type.t = "string" THEN f.type.s
                      ELSE IF f.type.t = "undefined" \/ f.type.t = "null" THEN "string"
                      ELSE "other"
       IN FromEntries([i \in DOMAIN fields |-> FieldKey(fields[i])],
                      [i \in DOMAIN fields |->
                         coerceFieldValue(Property(parsed, FieldKey(fields[i])), type(fields[i]))])

(***************************************************************************)
(* Export content.                                                         *)
(***************************************************************************)
\* JSON.stringify(data, null, 2): undefined for undefined, else the text of
\* the value, kept as the string that carries the value it spells
Pretty(data) ==
  IF data.t = "undefined" THEN Undef
  ELSE [t |-> "string", n |-> 0, s |-> "JSON.stringify", o |-> <<cloneValue(data)>>]

\* the characters of the strings of the model
Chars(text) ==
  CASE text = "" -> <<>>
    [] text = "x" -> <<"x">>
    [] text = "y" -> <<"y">>
    [] text = "y,z" -> <<"y", ",", "z">>
    [] text = "say \"hi\"" -> <<"s", "a", "y", " ", "\"", "h", "i", "\"">>
    [] OTHER -> <<text>>

\* the characters of JSON.stringify(value) for the cell values of the model
StringifyChars(value) ==
  CASE value.t = "string" -> <<"\"">> \o Chars(value.s) \o <<"\"">>
    [] value = Num(100) -> <<"1">>
    [] value = Num(200) -> <<"2">>
    [] value.t = "boolean" -> IF value.n = 1 THEN <<"t", "r", "u", "e">>
                              ELSE <<"f", "a", "l", "s", "e">>
    [] OTHER -> <<"{", "}">>

\* Object.keys(row): the objects of the model are written with their keys
\* in this order
KeyOrder == <<"a", "b", "c">>
Keys(row) ==
  IF row.t # "object" THEN <<>> ELSE SelectSeq(KeyOrder, LAMBDA k : k \in DOMAIN row.o)

\* parts.join(sep) on sequences of characters
RECURSIVE JoinWith(_, _)
JoinWith(parts, sep) ==
  IF parts = <<>> THEN <<>>
  ELSE IF Len(parts) = 1 THEN parts[1]
  ELSE parts[1] \o <<sep>> \o JoinWith(Tail(parts), sep)

\* raw.replace(/"/g, "\"\"")
RECURSIVE DoubleQuotes(_)
DoubleQuotes(raw) ==
  IF raw = <<>> THEN <<>>
  ELSE (IF Head(raw) = "\"" THEN <<"\"", "\"">> ELSE <<Head(raw)>>) \o DoubleQuotes(Tail(raw))

\* a string kept as its characters
CsvText(chars) == [t |-> "string", n |-> 0, s |-> "csv", o |-> chars]

\* a serialization that wraps the cells without doubling their quotes
toCsvUnescaped(data) ==
  IF data.t # "array" THEN Pretty(data)
  ELSE IF data.o = <<>> THEN Str("")
  ELSE LET rows == data.o
           headers == Keys(rows[1])
           cell(row, h) ==
             LET value == IF row.t = "object" /\ h \in DOMAIN row.o THEN row.o[h] ELSE Undef
             IN <<"\"">> \o (IF value.t = "string" THEN Chars(value.s)
                             ELSE StringifyChars(OrElse(value, Str("")))) \o <<"\"">>
           line(row) == JoinWith([i \in DOMAIN headers |-> cell(row, headers[i])], ",")
       IN CsvText(JoinWith(<<JoinWith([i \in DOMAIN headers |-> Chars(headers[i])], ",")>>
                             \o [i \in DOMAIN rows |-> line(rows[i])], "\n"))

toCsv(data) ==
  IF data.t # "array" THEN Pretty(data)
  ELSE IF data.o = <<>> THEN Str("")
  ELSE LET rows == data.o
           headers == Keys(rows[1])
           cell(row, h) ==
             LET value == IF row.t = "object" /\ h \in DOMAIN row.o THEN row.o[h] ELSE Undef
                 raw == IF value.t = "string" THEN Chars(value.s)
                        ELSE StringifyChars(OrElse(value, Str("")))
             IN <<"\"">> \o DoubleQuotes(raw) \o <<"\"">>
           line(row) == JoinWith([i \in DOMAIN headers |-> cell(row, headers[i])], ",")
       IN CsvText(JoinWith(<<JoinWith([i \in DOMAIN headers |-> Chars(headers[i])], ",")>>
                             \o [i \in DOMAIN rows |-> line(rows[i])], "\n"))

\* runNode of the browser simulator
runNode(node, ctx) ==
  LET config == node.config
      input == resolveJsonPath(AsObject(ctx), InputPath(config))
  IN CASE node.type = "ai.summarize" ->
            IF StringifiesToUndefined(input) THEN Threw("TypeError", ctx)
            ELSE Returned(Put(ctx, OutputKey(config, "summary"), Str("Summary: ...")))
       [] node.type = "ai.classify" ->
            Returned(PutResult(ctx, config, classifyText(input, Labels(config))))
       [] node.type = "ai.extract_fields" ->
            Returned(Put(ctx, OutputKey(config, "extracted"), defaultExtractedFields(config.fields)))
       [] node.type = "ai.generate_report" ->
            IF StringifiesToUndefined(input) THEN Threw("TypeError", ctx)
            ELSE Returned(Put(ctx, OutputKey(config, "report"), Str("# Generated SOP ...")))
       [] node.type = "logic.delay" -> Returned(Put(ctx, "delay_applied", Num(0)))
       [] node.type = "output.db_save" ->
            Returned(Put(ctx, "db_save",
                         Obj([k \in {"would_save", "table", "mode", "payload"} |->
                                CASE k = "would_save" -> Bool(TRUE)
                                  [] k = "table" -> OrElse(config.table, Str("va_items"))
                                  [] k = "mode" -> Str("insert")
                                  [] OTHER -> EmptyObj])))
       [] node.type = "output.export" ->
            LET format == OrElse(config.format, Str("json"))
            IN Returned(Put(ctx, "export",
                            Obj([k \in {"format", "data", "content"} |->
                                   CASE k = "format" -> format
                                     [] k = "data" -> input
                                     [] OTHER -> IF format = Str("csv") THEN toCsv(input)
                                                 ELSE Pretty(input)])))
       [] OTHER -> Returned(ctx)

\* String.prototype.trim on the table names of the model
Trim(s) ==
  CASE s = " va_items " -> "va_items"
    [] s = "  " -> ""
    [] OTHER -> s

\* the table name without the configured one: every write goes to va_items
TableNameRedirected(config) == "va_items"

\* typeof config.table === "string" && config.table.trim() ? config.table.trim() : "va_items"
TableName(config) ==
  IF config.table.t = "string" /\ Trim(config.table.s) # "" THEN Trim(config.table.s) ELSE "va_items"

\* rawFormat === "csv" ? "csv" : "json" (the model's format strings are lower case, trimmed)
ExportFormat(config) ==
  IF config.format.t = "string" /\ config.format.s = "csv" THEN "csv" ELSE "json"

InsertCall(table, node_id, accepted) == [table |-> table, node_id |-> node_id, accepted |-> accepted]

\* an insert that is issued again when the collaborator rejects it
InsertWithRetry(call) == IF call.accepted THEN <<call>> ELSE <<call, call>>

\* await supabase.from(table).insert(row): the calls one executor issues
InsertOnce(call) == <<call>>

\* the fetch of callOpenAIText, made once the key is known to be configured
Fetch(r, node, reply) == [r EXCEPT !.requests = IF reply.sent THEN <<node.id>> ELSE <<>>]

\* the body of the try block of run-workflow, up to the branch selection;
\* reply is the outcome of the completion request, accepted whether the
\* persistence collaborator accepts the insert
runNodeEdge(node, ctx, runMode, reply, accepted) ==
  LET config == node.config
      ai == reply.ok
      input == resolveJsonPath(AsObject(ctx), InputPath(config))
      live == runMode = "live"
  IN CASE node.type = "ai.summarize" ->
            IF ~live THEN Returned(Put(ctx, OutputKey(config, "summary"), Str("Summary: ...")))
            ELSE IF ~ai THEN Fetch(Threw("OpenAI error", ctx), node, reply)
            ELSE Fetch(Returned(Put(ctx, OutputKey(config, "summary"), Str("Summary: ..."))),
                       node, reply)
       [] node.type = "ai.classify" ->
            IF ~live THEN Returned(PutResult(ctx, config, classifyText(input, Labels(config))))
            ELSE IF Labels(config) = <<>>
            THEN Returned(PutResult(ctx, config, classifyTextLive(input, Labels(config), reply)))
            ELSE IF ~ai THEN Fetch(Threw("OpenAI error", ctx), node, reply)
            ELSE Fetch(Returned(PutResult(ctx, config,
                                          classifyTextLive(input, Labels(config), reply))),
                       node, reply)
       [] node.type = "ai.extract_fields" ->
            IF ~live
            THEN Returned(Put(ctx, OutputKey(config, "extracted"),
                              defaultExtractedFields(config.fields)))
            ELSE IF config.fields = <<>>
            THEN Returned(Put(ctx, OutputKey(config, "extracted"),
                              extractFieldsLive(config.fields, Null)))
            ELSE IF ~ai THEN Fetch(Threw("OpenAI error", ctx), node, reply)
            ELSE Fetch(Returned(Put(ctx, OutputKey(config, "extracted"),
                                    extractFieldsLive(config.fields, ParsedObject(reply)))),
                       node, reply)
       [] node.type = "ai.generate_report" ->
            IF live
            THEN IF ~ai THEN Fetch(Threw("OpenAI error", ctx), node, reply)
                 ELSE Fetch(Returned(Put(ctx, OutputKey(config, "report"), Str("report"))),
                            node, reply)
            ELSE IF StringifiesToUndefined(input) THEN Threw("TypeError", ctx)
                 ELSE Returned(Put(ctx, OutputKey(config, "report"), Str("# Generated Report ...")))
       [] node.type = "logic.delay" -> Returned(Put(ctx, "delay_applied", Num(0)))
       [] node.type = "output.db_save" ->
            LET tableName == TableName(config)
                call == InsertCall(tableName, node.id, accepted)
            IN IF tableName # "va_items"
               THEN Threw("db_save unsupported table: " \o tableName, ctx)
               ELSE IF ~accepted
               THEN [Threw("db_save failed", ctx) EXCEPT !.inserts = InsertOnce(call)]
               ELSE [Returned(Put(ctx, "db_save",
                         Obj([k \in {"would_save", "table", "mode", "payload", "inserted_id"} |->
                                CASE k = "would_save" -> Bool(TRUE)
                                  [] k = "table" -> Str(tableName)
                                  [] k = "mode" -> Str("insert")
                                  [] k = "payload" -> EmptyObj
                                  [] OTHER -> Str("id")])))
                     EXCEPT !.inserts = InsertOnce(call)]
       [] node.type = "output.export" ->
            LET format == ExportFormat(config)
                call == InsertCall("workflow_exports", node.id, accepted)
            IN IF ~accepted
               THEN [Threw("export failed", ctx) EXCEPT !.inserts = InsertOnce(call)]
               ELSE [Returned(Put(ctx, "export",
                         Obj([k \in {"format", "content", "export_id"} |->
                                CASE k = "format" -> Str(format)
                                  [] k = "content" -> IF format = "csv" THEN toCsv(input)
                                                      ELSE Pretty(input)
                                  [] OTHER -> Str("id")])))
                     EXCEPT !.inserts = InsertOnce(call)]
       [] OTHER -> Returned(ctx)

(***************************************************************************)
(* Branch selection.                                                       *)
(***************************************************************************)
\* the port ids as values; Null when there is none
PortOrNull(ports, i) == IF i \in DOMAIN ports THEN Str(ports[i]) ELSE Null

\* the selection without the expression: always the first declared output
selectFirstOutput(node, ctx) == PortOrNull(node.outputs, 1)

selectConditionOutput(node, ctx) ==
  LET config == node.config
      defaultOutput == IF config.default_output.t = "string" THEN config.default_output ELSE Null
      outputIds == node.outputs
      others == {i \in DOMAIN outputIds : Str(outputIds[i]) # defaultOutput}
      nonDefault == IF others # {}
                    THEN Str(outputIds[CHOOSE i \in others : \A j \in others : i <= j])
                    ELSE PortOrNull(outputIds, 1)
      isTrue == evaluateConditionExpression(AsObject(ctx), config.expression)
  IN IF isTrue THEN nonDefault ELSE OrElse(defaultOutput, nonDefault)

\* outgoingByNodeId.get(node.id) ?? []
Outgoing(doc, id) == SelectSeq(doc.workflow.edges, LAMBDA e : e.source.node_id = id)

\* a truthy selectedPort: a non-empty string
Truthy(port) == port.t = "string" /\ port.s # ""

followedEdges(doc, node, selectedPort) ==
  IF node.type = "logic.condition" /\ Truthy(selectedPort)
  THEN SelectSeq(Outgoing(doc, node.id), LAMBDA e : e.source.port_id = selectedPort.s)
  ELSE Outgoing(doc, node.id)

nextNodeIds(doc, node, selectedPort) ==
  LET followed == followedEdges(doc, node, selectedPort)
  IN [i \in DOMAIN followed |-> followed[i].target.node_id]

(***************************************************************************)
(* Step records.                                                           *)
(***************************************************************************)
\* a record whose input snapshot is taken after the node has run
StepResultSnapshotAfterRun(node, status, selectedPort, nextIds, input, output, error) ==
  [node_id |-> node.id, node_type |-> node.type, status |-> status,
   selected_output_port |-> selectedPort, next_node_ids |-> nextIds,
   input |-> output, output |-> output, error |-> error]

StepResult(node, status, selectedPort, nextIds, input, output, error) ==
  [node_id |-> node.id, node_type |-> node.type, status |-> status,
   selected_output_port |-> selectedPort, next_node_ids |-> nextIds,
   input |-> input, output |-> output, error |-> error]

\* { error: message }
ErrorOutput(message) == [k \in {"error"} |-> Str(message)]

\* trigger?.config?.[key], the trigger being the node entry_node_id names
TriggerConfig(doc, key) ==
  LET entry == doc.workflow.entry_node_id
  IN IF HasNode(doc, entry) THEN FindNode(doc, entry).config[key] ELSE Undef

\* a seed that looks at the trigger's keys in the opposite order
InitialInputPayloadFirst(doc, override) ==
  OrElse(TriggerConfig(doc, "payload"),
         OrElse(TriggerConfig(doc, "sample_payload"),
                OrElse(TriggerConfig(doc, "sample_input"), OrElse(override, EmptyObj))))

\* simulateWorkflow: inputOverride ?? sample_input ?? sample_payload ?? payload ?? {}
InitialInput(doc, override) ==
  OrElse(override,
         OrElse(TriggerConfig(doc, "sample_input"),
                OrElse(TriggerConfig(doc, "sample_payload"),
                       OrElse(TriggerConfig(doc, "payload"), EmptyObj))))

\* run-workflow: body.input_json ?? (sample_input ?? sample_payload ?? payload ?? {})
initialInputOfRequest(doc, input_json) ==
  LET triggerCfg == [key \in {"sample_input", "sample_payload", "payload"} |->
                       TriggerConfig(doc, key)]
  IN OrElse(input_json,
            OrElse(triggerCfg["sample_input"],
                   OrElse(triggerCfg["sample_payload"], OrElse(triggerCfg["payload"], EmptyObj))))

(***************************************************************************)
(* State.                                                                  *)
(***************************************************************************)
VARIABLES
  RUN_MODE,       \* the deployment's run mode
  stored,         \* definition_json of the workflows row the page shows
  current,        \* the document in the workflow store, NoDoc when none
  edits,          \* store edits made since the row was inserted
  lastCheck,      \* the last call of validateWorkflowDoc: input and verdict
  lastEdit,       \* the last semantic command and its result
  pc,             \* "idle", "loop", "persist", "done"
  engine,         \* "none", "browser", "edge"
  runDoc,         \* the document being run
  ordered,        \* its topological order, as node ids
  idx,            \* position in ordered
  initialInput,   \* the payload of the run
  ctx,            \* the context
  activeNodeIds,  \* the active set
  steps,          \* the step trace
  runStatus,      \* "none", "running", "success", "failed"
  output,         \* the run's output
  inserts,        \* inserts issued by this invocation, in order
  requests,       \* completion requests sent by this invocation: the node ids
  resp,           \* the response of the edge function, NoResponse when none
  invocations,    \* the handler state of the requests run-workflow serves at once
  generation,     \* the handler state of generate-workflow: its calls, its response
  call,           \* the last call of a pure function: its name, arguments and result
  monthRuns       \* the run rows of the user in the current month, as a count

vars == <<RUN_MODE, stored, current, edits, lastCheck, lastEdit, pc, engine, runDoc, ordered,
          idx, initialInput, ctx, activeNodeIds, steps, runStatus, output, inserts,
          requests, resp, invocations, generation, call, monthRuns>>

storeVars == <<stored, current, edits, lastCheck, lastEdit>>
runVars == <<pc, engine, runDoc, ordered, idx, initialInput, ctx, activeNodeIds, steps,
             runStatus, output, inserts, requests, resp>>

NoCheck == [called |-> FALSE, input |-> NoDoc, ok |-> FALSE]
Checked(input) == [called |-> TRUE, input |-> input, ok |-> validateWorkflowDoc(input).ok]
NoEdit == [issued |-> FALSE, source |-> "", target |-> "", before |-> NoDoc, after |-> NoDoc,
           ok |-> FALSE, message |-> ""]
NoResponse == [sent |-> FALSE, status |-> 0, ok |-> FALSE, error |-> "", has_run_id |-> FALSE,
               details |-> ""]
\* a response that reports success whatever happened
ResponseAlwaysOk(status, ok, error, hasRunId, details) ==
  [sent |-> TRUE, status |-> 200, ok |-> TRUE, error |-> error, has_run_id |-> hasRunId,
   details |-> details]

Response(status, ok, error, hasRunId, details) ==
  [sent |-> TRUE, status |-> status, ok |-> ok, error |-> error, has_run_id |-> hasRunId,
   details |-> details]
NoCtx == <<>>

\* no function has been called
NoCall == [fn |-> "", args |-> <<>>, result |-> Undef]

\* generate-workflow before a request
NoGeneration ==
  [pc |-> "idle", calls |-> <<>>, errors |-> {},
   response |-> [sent |-> FALSE, status |-> 0, ok |-> FALSE, workflow_doc |-> NoDoc]]

Idle ==
  /\ pc = "idle" /\ engine = "none" /\ runDoc = NoDoc /\ ordered = <<>> /\ idx = 1
  /\ initialInput = Undef /\ ctx = NoCtx /\ activeNodeIds = {} /\ steps = <<>>
  /\ runStatus = "none" /\ output = NoCtx /\ inserts = <<>> /\ requests = <<>>
  /\ resp = NoResponse

Init ==
  /\ RUN_MODE \in {"simulate", "live"}
  /\ stored = NoDoc /\ current = NoDoc /\ edits = 0
  /\ lastCheck = NoCheck /\ lastEdit = NoEdit
  /\ Idle
  /\ invocations = <<>>
  /\ generation = NoGeneration
  /\ call = NoCall
  /\ monthRuns = 0

(***************************************************************************)
(* The workflows table and the workflow store.                             *)
(***************************************************************************)
\* a row inserted without validation: createWorkflow of the live smoke
\* script, useTemplate of the templates page
DirectInsert(d) ==
  /\ pc = "idle"
  /\ stored' = d /\ current' = NoDoc /\ edits' = 0
  /\ lastCheck' = NoCheck /\ lastEdit' = NoEdit
  /\ UNCHANGED <<RUN_MODE, invocations, generation, call, monthRuns, runVars>>

\* the load effect of the workflow detail page
LoadWorkflow ==
  /\ pc = "idle" /\ stored # NoDoc
  /\ lastCheck' = Checked(stored)
  /\ current' = IF lastCheck'.ok THEN stored ELSE current
  /\ UNCHANGED <<RUN_MODE, invocations, generation, call, monthRuns, stored, edits, lastEdit, runVars>>

\* the configurations the inspector is used to apply
ConfigPatches(node) ==
  CASE node.type = "output.db_save" ->
         {[node.config EXCEPT !.table = t] : t \in {Str(" va_items "), Str("")}}
    [] node.type = "logic.condition" -> {[node.config EXCEPT !.default_output = Undef]}
    [] node.type = "trigger.webhook" ->
         {[node.config EXCEPT !.sample_input = Obj([k \in {"score"} |-> Num(90)])],
          [node.config EXCEPT !.sample_payload = Undef],
          [node.config EXCEPT !.sample_payload = Null, !.payload = Undef]}
    [] OTHER -> {}

patchNode(doc, nodeId, config) ==
  [doc EXCEPT !.workflow.nodes =
     [i \in DOMAIN @ |-> IF @[i].id = nodeId THEN [@[i] EXCEPT !.config = config] ELSE @[i]]]

PatchNode ==
  /\ pc = "idle" /\ current # NoDoc /\ edits < MaxEdits
  /\ \E i \in DOMAIN current.workflow.nodes :
       \E config \in ConfigPatches(current.workflow.nodes[i]) :
         current' = patchNode(current, current.workflow.nodes[i].id, config)
  /\ edits' = edits + 1
  /\ UNCHANGED <<RUN_MODE, invocations, generation, call, monthRuns, stored, lastCheck, lastEdit, runVars>>

\* the connect commands issued in the rail
Commands == {<<"n3", "n2">>, <<"n2", "n1">>, <<"n1", "n3">>}

\* runCommand of the semantic editor rail
SemanticEdit ==
  /\ pc = "idle" /\ current # NoDoc /\ edits <= MaxEdits
  /\ \E c \in Commands :
       LET result == applySemanticCommand(current, c[1], c[2])
           candidate == connectNodes(current, c[1], c[2])
       IN /\ current' = IF result.ok THEN result.workflow ELSE current
          /\ lastEdit' = [issued |-> TRUE, source |-> c[1], target |-> c[2], before |-> current,
                          after |-> current', ok |-> result.ok, message |-> result.message]
          /\ lastCheck' = IF candidate = NoDoc THEN lastCheck ELSE Checked(candidate)
  /\ edits' = MaxEdits + 1
  /\ UNCHANGED <<RUN_MODE, invocations, generation, call, monthRuns, stored, runVars>>

\* save of the workflow detail page
Save ==
  /\ pc = "idle" /\ current # NoDoc
  /\ lastCheck' = Checked(current)
  /\ stored' = IF lastCheck'.ok THEN current ELSE stored
  /\ UNCHANGED <<RUN_MODE, invocations, generation, call, monthRuns, current, edits, lastEdit, runVars>>

\* duplicate of the workflow detail page: the copy becomes the row shown
Duplicate ==
  /\ pc = "idle" /\ current # NoDoc
  /\ stored' = current
  /\ UNCHANGED <<RUN_MODE, invocations, generation, call, monthRuns, current, edits, lastCheck, lastEdit, runVars>>

(***************************************************************************)
(* Runs: the browser simulator and the run-workflow function.              *)
(***************************************************************************)
IsDag(doc) == Len(topo(doc)) = Len(doc.workflow.nodes)

\* a loop that goes over the order twice
StartLoopTwice(doc, input) ==
  /\ runDoc' = doc
  /\ ordered' = topo(doc) \o topo(doc)
  /\ idx' = 1
  /\ initialInput' = input
  /\ ctx' = [k \in {"input"} |-> cloneValue(initialInput')]
  /\ activeNodeIds' = {doc.workflow.entry_node_id}
  /\ steps' = <<>>
  /\ runStatus' = "running"
  /\ pc' = "loop"

StartLoop(doc, input) ==
  /\ runDoc' = doc
  /\ ordered' = topo(doc)
  /\ idx' = 1
  /\ initialInput' = input
  /\ ctx' = [k \in {"input"} |-> cloneValue(initialInput')]
  /\ activeNodeIds' = {doc.workflow.entry_node_id}
  /\ steps' = <<>>
  /\ runStatus' = "running"
  /\ pc' = "loop"

\* simulate of the workflow detail page, up to the loop of simulateWorkflow
Simulate ==
  /\ pc = "idle" /\ current # NoDoc
  /\ lastCheck' = Checked(current)
  /\ \E override \in InputOverrides :
       IF ~lastCheck'.ok THEN UNCHANGED runVars
       ELSE /\ engine' = "browser"
            /\ IF IsDag(current)
               THEN /\ StartLoop(current, InitialInput(current, override))
                    /\ UNCHANGED output
               ELSE /\ runDoc' = current
                    /\ initialInput' = InitialInput(current, override)
                    /\ runStatus' = "failed"
                    /\ output' = ErrorOutput("Cycle detected or graph is not a DAG.")
                    /\ pc' = "persist"
                    /\ UNCHANGED <<ordered, idx, ctx, activeNodeIds, steps>>
            /\ UNCHANGED <<inserts, requests, resp>>
  /\ UNCHANGED <<RUN_MODE, invocations, generation, call, monthRuns, stored, current, edits, lastEdit>>

\* the run-workflow request handler, up to its loop
RunLive ==
  /\ pc = "idle" /\ stored # NoDoc
  /\ engine' = "edge"
  /\ \E override \in InputOverrides :
       IF IsDag(stored)
       THEN /\ StartLoop(stored, initialInputOfRequest(stored, override))
            /\ UNCHANGED resp
       ELSE /\ runDoc' = stored
            /\ resp' = Response(422, FALSE, "Workflow graph is not a DAG", FALSE, "")
            /\ pc' = "done"
            /\ UNCHANGED <<ordered, idx, initialInput, ctx, activeNodeIds, steps, runStatus>>
  /\ UNCHANGED <<output, inserts, requests>>
  /\ UNCHANGED <<RUN_MODE, invocations, generation, call, monthRuns, storeVars>>

CurrentNode == NodesById(runDoc, ordered[idx])

\* the loop without its continue: every node of the order is taken as active
IsActiveAlways(active, id) == TRUE

\* activeNodeIds.has(node.id)
IsActive(active, id) == id \in active

\* if (!activeNodeIds.has(node.id)) continue
LoopSkip ==
  /\ pc = "loop" /\ idx <= Len(ordered)
  /\ ~IsActive(activeNodeIds, ordered[idx])
  /\ idx' = idx + 1
  /\ UNCHANGED <<RUN_MODE, invocations, generation, call, monthRuns, storeVars, pc, engine, runDoc, ordered, initialInput, ctx,
                 activeNodeIds, steps, runStatus, output, inserts, requests, resp>>

\* the catch block with a compensating delete: the rows of the earlier nodes
\* are gone, only the calls of the failing node remain
IssuedOrRolledBack(log, r) == IF r.threw THEN r.inserts ELSE log \o r.inserts

\* the calls to the persistence collaborator so far, after one executor: the
\* loop and its catch block issue nothing but the executor's own inserts
Issued(log, r) == log \o r.inserts

\* one iteration of the loop on an active node
LoopExec ==
  /\ pc = "loop" /\ idx <= Len(ordered)
  /\ IsActive(activeNodeIds, ordered[idx])
  /\ \E reply \in Replies, accepted \in BOOLEAN :
       LET node == CurrentNode
           inSnapshot == deepClone(ctx)
           r == IF engine = "browser" THEN runNode(node, ctx)
                ELSE runNodeEdge(node, ctx, RUN_MODE, reply, accepted)
           selectedPort == IF node.type = "logic.condition"
                           THEN selectConditionOutput(node, r.out) ELSE Null
           nextIds == nextNodeIds(runDoc, node, selectedPort)
       IN /\ inserts' = Issued(inserts, r)
          /\ requests' = requests \o r.requests
          /\ IF r.threw
             THEN /\ steps' = Append(steps, StepResult(node, "failed", Null, <<>>, inSnapshot,
                                                       ErrorOutput(r.error), r.error))
                  /\ runStatus' = "failed"
                  /\ output' = ctx
                  /\ pc' = "persist"
                  /\ UNCHANGED <<ctx, activeNodeIds, idx>>
             ELSE /\ steps' = Append(steps, StepResult(node, "success", selectedPort, nextIds,
                                                       inSnapshot, deepClone(r.out), ""))
                  /\ activeNodeIds' = activeNodeIds \cup SeqToSet(nextIds)
                  /\ ctx' = r.out
                  /\ idx' = idx + 1
                  /\ UNCHANGED <<runStatus, output, pc>>
  /\ UNCHANGED <<RUN_MODE, invocations, generation, call, monthRuns, storeVars, engine, runDoc, ordered, initialInput, resp>>

\* the loop is over
LoopEnd ==
  /\ pc = "loop" /\ idx > Len(ordered)
  /\ runStatus' = "success"
  /\ output' = ctx
  /\ pc' = "persist"
  /\ UNCHANGED <<RUN_MODE, invocations, generation, call, monthRuns, storeVars, engine, runDoc, ordered, idx, initialInput, ctx,
                 activeNodeIds, steps, inserts, requests, resp>>

\* the record built before the failed step is pushed
RunRecordBeforeLastStep(accepted) ==
  [table |-> "runs", node_id |-> "", accepted |-> accepted, status |-> runStatus,
   output_json |-> output, steps |-> SubSeq(steps, 1, Len(steps) - 1)]

RunRecord(accepted) ==
  [table |-> "runs", node_id |-> "", accepted |-> accepted, status |-> runStatus,
   output_json |-> output, steps |-> steps]

\* the insert into runs, and the response
PersistRun ==
  /\ pc = "persist"
  /\ \E accepted \in BOOLEAN :
       /\ inserts' = Append(inserts, RunRecord(accepted))
       /\ resp' = CASE engine = "browser" -> resp
                    [] runStatus = "failed" ->
                         Response(500, FALSE, "Run failed", accepted, steps[Len(steps)].error)
                    [] accepted -> Response(200, TRUE, "", TRUE, "")
                    [] OTHER -> Response(500, FALSE, "insert rejected", FALSE, "")
  /\ pc' = "done"
  /\ UNCHANGED <<RUN_MODE, invocations, generation, call, monthRuns, storeVars, engine, runDoc, ordered, idx, initialInput, ctx,
                 activeNodeIds, steps, runStatus, output, requests>>

\* the invocation is over
Finish ==
  /\ pc = "done"
  /\ pc' = "idle" /\ engine' = "none" /\ runDoc' = NoDoc /\ ordered' = <<>> /\ idx' = 1
  /\ initialInput' = Undef /\ ctx' = NoCtx /\ activeNodeIds' = {} /\ steps' = <<>>
  /\ runStatus' = "none" /\ output' = NoCtx /\ inserts' = <<>> /\ requests' = <<>>
  /\ resp' = NoResponse
  /\ UNCHANGED <<RUN_MODE, invocations, generation, call, monthRuns, storeVars>>

Next ==
  \/ \E d \in Definitions : DirectInsert(d)
  \/ LoadWorkflow
  \/ PatchNode
  \/ SemanticEdit
  \/ Save
  \/ Duplicate
  \/ Simulate
  \/ RunLive
  \/ LoopSkip
  \/ LoopExec
  \/ LoopEnd
  \/ PersistRun
  \/ Finish

Spec == Init /\ [][Next]_vars

(***************************************************************************)
(* Runs of a stored document, one after the other, with a loop that goes   *)
(* on: every await of an iteration settles, so the iteration is taken.     *)
(***************************************************************************)
InitProgress ==
  /\ RUN_MODE \in {"simulate", "live"}
  /\ stored \in {baseDoc, branchDoc, failureWorkflowDoc, saveExportDoc, cyc}
  /\ current = stored /\ edits = 0
  /\ lastCheck = Checked(stored) /\ lastEdit = NoEdit
  /\ Idle
  /\ invocations = <<>>
  /\ generation = NoGeneration
  /\ call = NoCall
  /\ monthRuns = 0

Iteration == LoopSkip \/ LoopExec \/ LoopEnd

NextProgress ==
  \/ Simulate
  \/ RunLive
  \/ Iteration
  \/ PersistRun
  \/ Finish

SpecProgress == InitProgress /\ [][NextProgress]_vars /\ WF_vars(Iteration)

(***************************************************************************)
(* Concurrent invocations of run-workflow.  Every request is served by its *)
(* own call of the handler; the handler's ctx, activeNodeIds and steps are *)
(* locals of that call, and a call is suspended at each await.             *)
(***************************************************************************)
Invocations == {1, 2}

\* the documents requested and what the collaborators answer to one request
Requested == {baseDoc, branchDoc, saveExportDoc}
Outcomes ==
  {<<Reply(Str("lead"), Num(150)), TRUE>>, <<TransportError, TRUE>>,
   <<Reply(Str("lead"), Num(150)), FALSE>>}

NoInvocation ==
  [pc |-> "none", doc |-> NoDoc, override |-> Undef, reply |-> NotConfigured, accepted |-> FALSE,
   ordered |-> <<>>, idx |-> 1, ctx |-> NoCtx, active |-> {}, steps |-> <<>>,
   status |-> "none", snapshot |-> NoCtx, pending |-> Returned(NoCtx), runsCount |-> 0]

\* the handler answers 429 from its quota check
Limited(runsCount) ==
  [NoInvocation EXCEPT !.pc = "limited", !.status = "Monthly run limit reached",
                       !.runsCount = runsCount]

\* the insert into runs at the end of a run, as the count of the month's rows
insertRun(count, inv) == IF inv.accepted THEN count + 1 ELSE count

\* the locals of the handler when it enters its loop
NewInvocation(doc, override, reply, accepted) ==
  [pc |-> "loop", doc |-> doc, override |-> override, reply |-> reply, accepted |-> accepted,
   ordered |-> topo(doc), idx |-> 1,
   ctx |-> [k \in {"input"} |-> cloneValue(initialInputOfRequest(doc, override))],
   active |-> {doc.workflow.entry_node_id}, steps |-> <<>>,
   status |-> "running", snapshot |-> NoCtx, pending |-> Returned(NoCtx), runsCount |-> 0]

\* a context kept in one module-level variable: every call reads the first
ContextOfFirst(invs, i) == invs[1].ctx

\* the ctx the executor of invocation i reads: the local of its own call
ContextOf(invs, i) == invs[i].ctx

\* the iteration up to its await: the snapshot, and the executor's call
beginNode(inv, read, runMode) ==
  [inv EXCEPT !.pc = "await",
              !.snapshot = deepClone(read),
              !.pending = runNodeEdge(NodesById(inv.doc, inv.ordered[inv.idx]), read, runMode,
                                      inv.reply, inv.accepted)]

\* the iteration after its await: the step is pushed, or the catch block runs
settleNode(inv) ==
  LET node == NodesById(inv.doc, inv.ordered[inv.idx])
      r == inv.pending
      selectedPort == IF node.type = "logic.condition"
                      THEN selectConditionOutput(node, r.out) ELSE Null
      nextIds == nextNodeIds(inv.doc, node, selectedPort)
  IN IF r.threw
     THEN [inv EXCEPT !.pc = "done", !.status = "failed",
                      !.steps = Append(@, StepResult(node, "failed", Null, <<>>, inv.snapshot,
                                                     ErrorOutput(r.error), r.error))]
     ELSE [inv EXCEPT !.pc = "loop", !.idx = @ + 1, !.ctx = r.out,
                      !.active = @ \cup SeqToSet(nextIds),
                      !.steps = Append(@, StepResult(node, "success", selectedPort, nextIds,
                                                     inv.snapshot, deepClone(r.out), ""))]

\* a request arrives: its handler counts the month's runs of the user and
\* answers 429 or reaches the loop
Accept(i) ==
  /\ invocations[i].pc = "none"
  /\ IF monthRuns >= RUN_WORKFLOW_MONTHLY_LIMIT
     THEN invocations' = [invocations EXCEPT ![i] = Limited(monthRuns)]
     ELSE \E doc \in Requested, override \in InputOverrides, o \in Outcomes :
            invocations' =
              [invocations EXCEPT ![i] = [NewInvocation(doc, override, o[1], o[2])
                                            EXCEPT !.runsCount = monthRuns]]
  /\ UNCHANGED <<RUN_MODE, generation, call, monthRuns, storeVars, runVars>>

Skip(i) ==
  LET inv == invocations[i]
  IN /\ inv.pc = "loop" /\ inv.idx <= Len(inv.ordered)
     /\ ~IsActive(inv.active, inv.ordered[inv.idx])
     /\ invocations' = [invocations EXCEPT ![i].idx = @ + 1]
     /\ UNCHANGED <<RUN_MODE, generation, call, monthRuns, storeVars, runVars>>

Begin(i) ==
  LET inv == invocations[i]
  IN /\ inv.pc = "loop" /\ inv.idx <= Len(inv.ordered)
     /\ IsActive(inv.active, inv.ordered[inv.idx])
     /\ invocations' =
          [invocations EXCEPT ![i] = beginNode(inv, ContextOf(invocations, i), RUN_MODE)]
     /\ UNCHANGED <<RUN_MODE, generation, call, monthRuns, storeVars, runVars>>

\* the await settles; the catch block inserts the failed run
Settle(i) ==
  /\ invocations[i].pc = "await"
  /\ invocations' = [invocations EXCEPT ![i] = settleNode(invocations[i])]
  /\ monthRuns' = IF invocations[i].pending.threw THEN insertRun(monthRuns, invocations[i])
                  ELSE monthRuns
  /\ UNCHANGED <<RUN_MODE, generation, call, storeVars, runVars>>

End(i) ==
  LET inv == invocations[i]
  IN /\ inv.pc = "loop" /\ inv.idx > Len(inv.ordered)
     /\ invocations' = [invocations EXCEPT ![i].pc = "done", ![i].status = "success"]
     /\ monthRuns' = insertRun(monthRuns, inv)
     /\ UNCHANGED <<RUN_MODE, generation, call, storeVars, runVars>>

InitConcurrent ==
  /\ RUN_MODE \in {"simulate", "live"}
  /\ stored = NoDoc /\ current = NoDoc /\ edits = 0
  /\ lastCheck = NoCheck /\ lastEdit = NoEdit
  /\ Idle
  /\ invocations = [i \in Invocations |-> NoInvocation]
  /\ generation = NoGeneration
  /\ call = NoCall
  /\ monthRuns = RUN_WORKFLOW_MONTHLY_LIMIT - 1

NextConcurrent ==
  \/ \E i \in Invocations : Accept(i)
  \/ \E i \in Invocations : Skip(i)
  \/ \E i \in Invocations : Begin(i)
  \/ \E i \in Invocations : Settle(i)
  \/ \E i \in Invocations : End(i)

SpecConcurrent == InitConcurrent /\ [][NextConcurrent]_vars

(***************************************************************************)
(* The document generation surface: generate-workflow.                     *)
(***************************************************************************)
NodeIdNames == <<"n1", "n2", "n3", "n4", "n5", "n6">>

\* normalizeNodeType: the aliases of output.export
normalizeNodeType(type) ==
  IF type \in {"output.email", "output.email_send", "output.send_email", "output.export_email"}
  THEN "output.export" ELSE type

\* toPort on the ports of the model, which are their ids
toPort(port, fallbackId) == IF port # "" THEN port ELSE fallbackId

normalizeWorkflowDoc(parsed) ==
  LET nodes == parsed.workflow.nodes
      edges == parsed.workflow.edges
      node(at) ==
        LET rawNode == nodes[at]
            rawType == normalizeNodeType(rawNode.type)
        IN [id |-> IF rawNode.id # "" THEN rawNode.id ELSE NodeIdNames[at],
            type |-> rawType,
            inputs |-> IF rawType \in triggerNodeTypes THEN <<>>
                       ELSE IF rawNode.inputs = <<>> THEN <<"in">>
                       ELSE [p \in DOMAIN rawNode.inputs |->
                               toPort(rawNode.inputs[p], IF p = 1 THEN "in" ELSE "in2")],
            outputs |-> IF rawNode.outputs = <<>> THEN <<"out">>
                        ELSE [p \in DOMAIN rawNode.outputs |->
                                toPort(rawNode.outputs[p], IF p = 1 THEN "out" ELSE "out2")],
            config |-> IF rawType # "output.export" THEN rawNode.config
                       ELSE [rawNode.config EXCEPT
                               !.format = IF @ = Str("csv") THEN Str("csv") ELSE Str("json"),
                               !.filename =
                                 IF @.t = "string" /\ @.s # "" THEN @
                                 ELSE IF rawNode.config.format = Str("csv")
                                      THEN Str("export.csv") ELSE Str("export.json")]]
      edge(at) ==
        LET rawEdge == edges[at]
        IN [id |-> IF rawEdge.id # "" THEN rawEdge.id ELSE EdgeIdNames[at],
            source |-> [node_id |-> rawEdge.source.node_id,
                        port_id |-> toPort(rawEdge.source.port_id, "out")],
            target |-> [node_id |-> rawEdge.target.node_id,
                        port_id |-> toPort(rawEdge.target.port_id, "in")]]
  IN [schema_version |-> "1.0",
      workflow |-> [entry_node_id |-> parsed.workflow.entry_node_id,
                    nodes |-> [at \in DOMAIN nodes |-> node(at)],
                    edges |-> [at \in DOMAIN edges |-> edge(at)]]]

\* what the text model returns: no completion at all (callOpenAI throws), a
\* text JSON.parse throws on, or the JSON text of a draft
NoCompletion == [ok |-> FALSE, parses |-> FALSE, draft |-> NoDoc]
NotJson == [ok |-> TRUE, parses |-> FALSE, draft |-> NoDoc]
Json(draft) == [ok |-> TRUE, parses |-> TRUE, draft |-> draft]

\* the drafts: the documents of the model, one that sends its result by
\* e-mail, and one that leaves ids, ports and the version out
Drafts ==
  Definitions \cup
    {[baseDoc EXCEPT !.workflow.nodes[3].type = "output.email",
                     !.workflow.nodes[3].config.format = Str("email")],
     Doc("", "n1",
         <<Node("", "trigger.manual", <<"in">>, <<>>, NoConfig),
           Node("", "ai.summarize", <<>>, <<>>, NoConfig)>>,
         <<Edge("", "n1", "", "n2", "")>>)}
Completions == {NoCompletion, NotJson} \cup {Json(draft) : draft \in Drafts}

\* an attempt that takes the parsed text as it is
parseUnvalidated(content) ==
  [success |-> TRUE, data |-> content.draft, issues |-> {}]

\* parseAndValidate on a text that parses: workflowDocSchema.safeParse of the
\* normalised document (the function's copy of the schema accepts the
\* documents the shared schema accepts)
parseAndValidate(content) ==
  LET normalized == normalizeWorkflowDoc(content.draft)
      issues == workflowDocSchema(normalized)
  IN [success |-> issues = {}, data |-> normalized, issues |-> issues]

Answer(status, ok, doc) == [sent |-> TRUE, status |-> status, ok |-> ok, workflow_doc |-> doc]

\* the handler up to the outcome of its first attempt; admitted is the
\* outcome of the method, authentication, body and quota checks
Generate ==
  /\ generation.pc = "idle"
  /\ \E admitted \in BOOLEAN, content \in Completions :
       generation' =
         IF ~admitted THEN [generation EXCEPT !.pc = "done", !.response = Answer(429, FALSE, NoDoc)]
         ELSE LET calls == <<[retryErrors |-> {}, content |-> content]>>
              IN IF ~content.ok \/ ~content.parses
                 THEN [generation EXCEPT !.pc = "done", !.calls = calls,
                                         !.response = Answer(500, FALSE, NoDoc)]
                 ELSE LET firstAttempt == parseAndValidate(content)
                      IN IF firstAttempt.success
                         THEN [generation EXCEPT !.pc = "done", !.calls = calls,
                                                 !.response = Answer(200, TRUE, firstAttempt.data)]
                         ELSE [generation EXCEPT !.pc = "retry", !.calls = calls,
                                                 !.errors = firstAttempt.issues]
  /\ UNCHANGED <<RUN_MODE, invocations, call, monthRuns, storeVars, runVars>>

\* the repair attempt and the response
Repair ==
  /\ generation.pc = "retry"
  /\ \E content \in Completions :
       LET calls == Append(generation.calls,
                          [retryErrors |-> generation.errors, content |-> content])
       IN generation' =
            IF ~content.ok \/ ~content.parses
            THEN [generation EXCEPT !.pc = "done", !.calls = calls,
                                    !.response = Answer(500, FALSE, NoDoc)]
            ELSE LET secondAttempt == parseAndValidate(content)
                 IN IF ~secondAttempt.success
                    THEN [generation EXCEPT !.pc = "done", !.calls = calls,
                                            !.response = Answer(422, FALSE, NoDoc)]
                    ELSE [generation EXCEPT !.pc = "done", !.calls = calls,
                                            !.response = Answer(200, TRUE, secondAttempt.data)]
  /\ UNCHANGED <<RUN_MODE, invocations, call, monthRuns, storeVars, runVars>>

\* the response is sent; the next request finds a new handler
Answered ==
  /\ generation.pc = "done"
  /\ generation' = NoGeneration
  /\ UNCHANGED <<RUN_MODE, invocations, call, monthRuns, storeVars, runVars>>

NextGenerate == Generate \/ Repair \/ Answered

SpecGenerate == Init /\ [][NextGenerate]_vars

(***************************************************************************)
(* The pure functions of the engines, called on their own.                 *)
(***************************************************************************)
Called(fn, args, result) == [fn |-> fn, args |-> args, result |-> result]

\* config.fields of an extract_fields node
FieldLists ==
  {<<>>,
   <<FieldSpec(Str("name"), Str("string")), FieldSpec(Str("amount"), Str("number"))>>,
   <<FieldSpec(Str("done"), Str("boolean")), FieldSpec(Str("tags"), Str("array"))>>,
   <<FieldSpec(Str("name"), Undef), FieldSpec(Str("due"), Str("date"))>>,
   <<FieldSpec(Str("amount"), Str("string")), FieldSpec(Str("amount"), Str("number"))>>}

\* what parseJsonObjectFromText makes of the completion: null, or an object
ParsedReplies ==
  {Null, EmptyObj,
   Obj([k \in {"name", "amount"} |-> IF k = "name" THEN Str("Acme") ELSE Str("0.5")]),
   Obj([k \in {"name", "amount", "note"} |-> IF k = "name" THEN Num(700) ELSE Str("n/a")]),
   Obj([k \in {"done", "tags", "due"} |->
          CASE k = "done" -> Num(0) [] k = "tags" -> Str("urgent") [] OTHER -> Null]),
   Obj([k \in {"done", "tags"} |->
          IF k = "done" THEN Str("no") ELSE Arr(<<Str("a"), Str("b")>>)])}

\* one extract_fields node executed on {input: {}}: by the simulator, by the
\* function in simulate mode, by the function in live mode on a reply
Extract ==
  /\ \E fields \in FieldLists, parsed \in ParsedReplies, mode \in {"browser", "simulate", "live"} :
       LET node == Node("n2", "ai.extract_fields", <<"in">>, <<"out">>,
                        [NoConfig EXCEPT !.fields = fields])
           ctx0 == [k \in {"input"} |-> EmptyObj]
           written ==
             CASE mode = "browser" -> runNode(node, ctx0).out["extracted"]
               [] mode = "simulate" ->
                    runNodeEdge(node, ctx0, "simulate", NotConfigured, TRUE).out["extracted"]
               [] OTHER -> extractFieldsLive(fields, parsed)
       IN call' = Called("extract_fields", <<mode, fields, parsed>>, written)
  /\ UNCHANGED <<RUN_MODE, invocations, generation, monthRuns, storeVars, runVars>>

\* the inputs and the label lists the classifier is called with
ClassifyInputs ==
  {Undef, Str("lead triage"), Str("Lead Triage"), Str("weekly reporting"), Str("hello"),
   Obj([k \in {"text"} |-> Str("lead triage")])}
LabelLists ==
  {<<>>, <<"operations", "lead", "other">>, <<"other", "admin">>, <<"reporting", "lead">>,
   <<"Lead", "admin">>, <<"Lead", "lead">>, <<"operations", "Lead", "admin">>}

\* classifyText called twice on the same arguments, by either engine
Classify ==
  /\ \E input \in ClassifyInputs, labels \in LabelLists, engine_ \in {"browser", "edge"} :
       LET node == Node("n2", "ai.classify", <<"in">>, <<"out">>,
                        [NoConfig EXCEPT !.labels = labels])
           ctx0 == [k \in {"input"} |-> input]
           first == IF engine_ = "browser" THEN runNode(node, ctx0).out
                    ELSE runNodeEdge(node, ctx0, "simulate", NotConfigured, TRUE).out
           second == classifyText(input, labels)
       IN call' = Called("classifyText", <<input, labels, engine_>>,
                         <<[label |-> first["label"], confidence |-> first["confidence"]],
                           second>>)
  /\ UNCHANGED <<RUN_MODE, invocations, generation, monthRuns, storeVars, runVars>>

\* the contexts and the path strings the resolver is called with
ResolveInputs ==
  {EmptyObj, Null,
   Obj([k \in {"a"} |-> Obj([j \in {"b"} |-> Arr(<<Num(4200)>>)])]),
   Obj([k \in {"a"} |-> Obj([j \in {"b"} |-> Arr(<<>>)])]),
   Obj([k \in {"a"} |-> Str("text")]),
   Obj([k \in {"a"} |-> Null]),
   Obj([k \in {"a"} |-> Obj([j \in {"b"} |-> Obj([i \in {"0"} |-> Num(700)])])])}
PathStrings ==
  {<<>>,
   <<"$">>,
   <<"$", ".", "a", ".", "b", "[", "0", "]">>,
   <<"$", ".", "a", ".", "b", "[", "1", "]">>,
   <<"$", ".", "a", ".", "b", "[", "0", "]", ".", "x">>,
   <<"$", ".", "a", ".", "x", ".", "b">>,
   <<"$", ".", "a", "[", "'", "b", "'", "]", "[", "0", "]">>,
   <<"$", ".", "a", "[", "b", "]">>,
   <<"$", ".", "a", ".", "b", "[", "0">>,
   <<"$", "a">>,
   <<"a", ".", "b">>,
   <<".", "a">>,
   <<"$", ".", "c", "o", "n", "s", "t", "r", "u", "c", "t", "o", "r">>}

\* resolveJsonPath called on a context and a path string
Resolve ==
  /\ \E input \in ResolveInputs, chars \in PathStrings :
       call' = Called("resolveJsonPath", <<input, chars>>, resolveJsonPath(input, ParsePath(chars)))
  /\ UNCHANGED <<RUN_MODE, invocations, generation, monthRuns, storeVars, runVars>>

\* a row of the model: the values of its keys a, b, c, Undef for none
Row(a, b, c) ==
  LET value == [k \in {"a", "b", "c"} |-> CASE k = "a" -> a [] k = "b" -> b [] OTHER -> c]
  IN Obj([k \in {j \in {"a", "b", "c"} : value[j].t # "undefined"} |-> value[k]])

\* the values an export node resolves
ExportInputs ==
  {Undef, Null, Num(100), Str("x"), Row(Num(100), Str("y,z"), Undef), Arr(<<>>),
   Arr(<<Row(Num(100), Str("x"), Undef), Row(Num(200), Str("y,z"), Undef)>>),
   Arr(<<Row(Str("say \"hi\""), Str("x"), Undef)>>),
   Arr(<<Row(Str("x"), Str("y"), Undef), Row(Str("y,z"), Undef, Undef)>>),
   Arr(<<Row(Str("x"), Undef, Undef), Row(Str("y"), Str("x"), Str("say \"hi\""))>>),
   Arr(<<Row(Null, Bool(TRUE), Str("")), Row(Str("say \"hi\""), Str("y,z"), EmptyObj)>>),
   Arr(<<Row(Str("x"), Str("y"), Str("y,z")), Row(Str("y"), Str("x"), Num(200)),
         Row(Str(""), Str("say \"hi\""), Bool(FALSE))>>)}

\* one export node executed on {input: data}, by the simulator or by the
\* function, with the format it is configured with
Export ==
  /\ \E data \in ExportInputs, format \in {Undef, Str("csv"), Str("json")},
        engine_ \in {"browser", "edge"} :
       LET node == Node("n2", "output.export", <<"in">>, <<>>,
                        [NoConfig EXCEPT !.format = format])
           ctx0 == [k \in {"input"} |-> data]
           out == IF engine_ = "browser" THEN runNode(node, ctx0).out
                  ELSE runNodeEdge(node, ctx0, "simulate", NotConfigured, TRUE).out
       IN call' = Called("toCsv", <<data, format, engine_>>, out["export"].o["content"])
  /\ UNCHANGED <<RUN_MODE, invocations, generation, monthRuns, storeVars, runVars>>

\* the name of a node: the names of the smoke workflow, else the node's type
NameOf(node) ==
  CASE node.id = "n1" -> "Start"
    [] node.id = "n2" -> "Summarize"
    [] node.id = "n3" -> "Export"
    [] OTHER -> node.type

\* copy.workflow.nodes.find(...) of a reference: the index of the first node
\* whose id or name is the reference, letter case apart; 0 when none is
FindRef(doc, nodeRef) ==
  LET ns == doc.workflow.nodes
      ByRef(k) == \/ ToLowerCase(ns[k].id) = ToLowerCase(nodeRef)
                  \/ ToLowerCase(NameOf(ns[k])) = ToLowerCase(nodeRef)
  IN IF \E k \in DOMAIN ns : ByRef(k)
     THEN CHOOSE k \in DOMAIN ns : ByRef(k) /\ \A j \in 1..(k - 1) : ~ByRef(j)
     ELSE 0

\* a deleteNode that removes the node and every edge of the document
deleteNodeAndEveryEdge(doc, nodeRef) ==
  LET at == FindRef(doc, nodeRef)
  IN IF at = 0 THEN NoDoc
     ELSE IF doc.workflow.nodes[at].id = doc.workflow.entry_node_id THEN NoDoc
     ELSE [doc EXCEPT !.workflow.nodes = SelectSeq(@, LAMBDA n : n.id # doc.workflow.nodes[at].id),
                      !.workflow.edges = <<>>]

\* deleteNode: NoDoc stands for null
deleteNode(doc, nodeRef) ==
  LET at == FindRef(doc, nodeRef)
  IN IF at = 0 THEN NoDoc
     ELSE IF doc.workflow.nodes[at].id = doc.workflow.entry_node_id THEN NoDoc
     ELSE LET target == doc.workflow.nodes[at]
          IN [doc EXCEPT !.workflow.nodes = SelectSeq(@, LAMBDA n : n.id # target.id),
                         !.workflow.edges =
                           SelectSeq(@, LAMBDA e : e.source.node_id # target.id
                                                   /\ e.target.node_id # target.id)]

\* applySemanticCommand on "delete <nodeRef>"
applySemanticDelete(doc, nodeRef) ==
  LET candidate == deleteNode(doc, nodeRef)
      check == validateWorkflowDoc(candidate)
  IN IF candidate = NoDoc
     THEN [ok |-> FALSE, message |-> "Node could not be deleted (not found or is trigger).",
           workflow |-> NoDoc, errors |-> {}]
     ELSE IF ~check.ok
     THEN [ok |-> FALSE, message |-> "Edit rejected by workflow validator.", workflow |-> NoDoc,
           errors |-> check.errors]
     ELSE [ok |-> TRUE, message |-> "Deleted.", workflow |-> candidate, errors |-> {}]

\* the references of the delete commands: ids and names, in either letter
\* case, and one that no node answers to
DeleteRefs == {"n1", "Start", "N2", "n3", "export", "n9"}

\* the documents the store can hold when a command is issued: the load
\* effect of the detail page keeps a row's document only if it passes the
\* validator
Loaded == {doc \in Definitions : validateWorkflowDoc(doc).ok}

\* applySemanticCommand(current, "delete <nodeRef>") on the documents of the
\* store
Delete ==
  /\ \E doc \in Loaded, nodeRef \in DeleteRefs :
       call' = Called("applySemanticCommand", <<doc, nodeRef>>, applySemanticDelete(doc, nodeRef))
  /\ UNCHANGED <<RUN_MODE, invocations, generation, monthRuns, storeVars, runVars>>

NextFunctions ==
  \/ Extract
  \/ Classify
  \/ Resolve
  \/ Export
  \/ Delete

SpecFunctions == Init /\ [][NextFunctions]_vars

(***************************************************************************)
(* Properties.                                                             *)
(***************************************************************************)
\* the steps of the run, as a set of positions
StepIndexes == DOMAIN steps
HasFailedStep == \E i \in StepIndexes : steps[i].status = "failed"
\* the inserts issued by node executors
NodeInserts == {i \in DOMAIN inserts : inserts[i].table # "runs"}

\* target is reachable from source along the edges of doc
RECURSIVE ReachSet(_, _, _)
ReachSet(doc, frontier, seen) ==
  LET next == {doc.workflow.edges[i].target.node_id :
                 i \in {j \in DOMAIN doc.workflow.edges :
                          doc.workflow.edges[j].source.node_id \in frontier}} \ seen
  IN IF next = {} THEN seen ELSE ReachSet(doc, next, seen \cup next)
Reaches(doc, source, target) == source = target \/ target \in ReachSet(doc, {source}, {})

\* C1: no node is executed unless the document being run passes the
\* document validator: whenever a run has a step, its document is valid.
C1_ExecutedOnlyIfValid == steps # <<>> => validateWorkflowDoc(runDoc).ok

\* C2: every document the validator accepts is acyclic: the topological
\* order of an accepted document contains every node.
C2_AcceptedIsAcyclic == (lastCheck.called /\ lastCheck.ok) => IsDag(lastCheck.input)

\* C3: a connect command on a valid document whose target already reaches
\* its source is rejected with "Edit rejected by workflow validator.", and
\* the document in the store is left as it was.
C3_CycleClosingConnectRejected ==
  (/\ lastEdit.issued
   /\ validateWorkflowDoc(lastEdit.before).ok
   /\ HasNode(lastEdit.before, lastEdit.source) /\ HasNode(lastEdit.before, lastEdit.target)
   /\ Reaches(lastEdit.before, lastEdit.target, lastEdit.source))
  => (/\ ~lastEdit.ok
      /\ lastEdit.message = "Edit rejected by workflow validator."
      /\ lastEdit.after = lastEdit.before)

\* C4: a run is fail-fast: at most one step failed, it is the last one, the
\* run is over once it exists, and the status of a run is failed if and only
\* if it has a failed step.
C4_FailFast ==
  /\ \A i \in StepIndexes : steps[i].status = "failed" => i = Len(steps) /\ pc \in {"persist", "done"}
  /\ pc \in {"persist", "done"} /\ runStatus # "none" => (runStatus = "failed" <=> HasFailedStep)

EntryId == runDoc.workflow.entry_node_id
RunOver == pc \in {"persist", "done"}
HasStep(id) == \E i \in StepIndexes : steps[i].node_id = id
\* a successful step lists id among its next_node_ids
Listed(id) ==
  \E j \in StepIndexes : steps[j].status = "success" /\ id \in SeqToSet(steps[j].next_node_ids)
\* a successful step before step i lists the node of step i
ListedBefore(i) ==
  \E j \in 1..(i - 1) :
    steps[j].status = "success" /\ steps[i].node_id \in SeqToSet(steps[j].next_node_ids)

\* C5 as stated: once a run is over, a node other than the entry node has a
\* step if and only if an earlier successful step lists it.
C5_StepIffListed ==
  RunOver =>
    \A id \in NodeIds(runDoc) \ {EntryId} :
      (\E i \in StepIndexes : steps[i].node_id = id /\ ListedBefore(i)) <=> Listed(id)

\* C5 amended: a node other than the entry node has a step only if an
\* earlier successful step lists it, and in a run that ends in success every
\* listed node has a step; only nodes with a step issue inserts; a run is
\* failed only when a step failed or the scheduler could not order the nodes.
C5_OnlyActiveNodesExecute ==
  /\ \A i \in StepIndexes : steps[i].node_id # EntryId => ListedBefore(i)
  /\ (RunOver /\ runStatus = "success") => \A id \in NodeIds(runDoc) : Listed(id) => HasStep(id)
  /\ \A k \in NodeInserts : HasStep(inserts[k].node_id)
  /\ runStatus = "failed" => (HasFailedStep \/ (steps = <<>> /\ ~IsDag(runDoc)))

\* a run ended in success with a node that has no step and a node, other than
\* the entry node, that has one
C5_Witness ==
  /\ pc = "done" /\ runStatus = "success"
  /\ \E id \in NodeIds(runDoc) : ~HasStep(id)
  /\ \E i \in StepIndexes : steps[i].node_id # EntryId

\* the condition steps of a run of a valid document
ConditionSteps ==
  {i \in StepIndexes : steps[i].node_type = "logic.condition" /\ steps[i].status = "success"}
StepNode(i) == NodesById(runDoc, steps[i].node_id)
\* the value of the step's expression on the context the step saw
StepTruth(i) == evaluateConditionExpression(Obj(steps[i].output), StepNode(i).config.expression)
OutputsOf(i) == {Str(StepNode(i).outputs[k]) : k \in DOMAIN StepNode(i).outputs}
FirstOutput(i) == Str(StepNode(i).outputs[1])

\* C6 as stated: in a valid document the selected port is default_output
\* when the expression is false or malformed, and a declared output other
\* than default_output when it is true.
C6_TrueSelectsNonDefault ==
  validateWorkflowDoc(runDoc).ok =>
    \A i \in ConditionSteps :
      LET port == steps[i].selected_output_port
          default == StepNode(i).config.default_output
      IN IF StepTruth(i) THEN port \in OutputsOf(i) /\ port # default ELSE port = default

\* the node of the example: "$.score > 0.8" with default_output "false"
ExampleCondition ==
  Node("c", "logic.condition", <<"in">>, <<"true", "false">>,
       [NoConfig EXCEPT !.default_output = Str("false"),
                        !.expression = Expr(PathOperand(<<"score">>), ">", LitOperand(Num(80)))])

\* C6 amended: in a valid document the selected port is default_output when
\* the expression is false or malformed; when it is true it is the first
\* declared output other than default_output, and the first declared output
\* when every declared output equals default_output.  The example selects
\* "true" on {score: 0.9} and "false" on {score: 0.1}.
C6_SelectedPort ==
  /\ validateWorkflowDoc(runDoc).ok =>
       \A i \in ConditionSteps :
         LET port == steps[i].selected_output_port
             default == StepNode(i).config.default_output
             others == {k \in DOMAIN StepNode(i).outputs : Str(StepNode(i).outputs[k]) # default}
         IN /\ port \in OutputsOf(i)
            /\ ~StepTruth(i) => port = default
            /\ (StepTruth(i) /\ others # {}) =>
                 /\ port # default
                 /\ \E k \in others : port = Str(StepNode(i).outputs[k]) /\ \A m \in others : k <= m
            /\ (StepTruth(i) /\ others = {}) => port = FirstOutput(i)
  /\ selectConditionOutput(ExampleCondition, [k \in {"score"} |-> Num(90)]) = Str("true")
  /\ selectConditionOutput(ExampleCondition, [k \in {"score"} |-> Num(10)]) = Str("false")

\* a run of a valid document took the non-default port of a condition node
\* whose expression was true
C6_Witness ==
  /\ validateWorkflowDoc(runDoc).ok
  /\ \E i \in ConditionSteps :
       StepTruth(i) /\ steps[i].selected_output_port # StepNode(i).config.default_output

\* C7: the next_node_ids of a condition step are the targets of the outgoing
\* edges leaving the selected port, and of any other successful step the
\* targets of all its outgoing edges.
C7_OneBranch ==
  \A i \in StepIndexes :
    steps[i].status = "success" =>
      LET out == Outgoing(runDoc, steps[i].node_id)
          taken == IF steps[i].node_type = "logic.condition"
                   THEN SelectSeq(out, LAMBDA e : Str(e.source.port_id) = steps[i].selected_output_port)
                   ELSE out
      IN steps[i].next_node_ids = [k \in DOMAIN taken |-> taken[k].target.node_id]

\* C8: in simulated mode, in the browser or in the function with RUN_MODE
\* other than "live", no node executor inserts a row.
C8_SimulatedHasNoInserts == (engine = "browser" \/ RUN_MODE # "live") => NodeInserts = {}

\* the record of the failed run: the last insert of the invocation
LastInsert == inserts[Len(inserts)]
LastStep == steps[Len(steps)]
FailedLiveRunOver == pc = "done" /\ engine = "edge" /\ HasFailedStep

\* C9 as stated: every failed run of the function persists the failed run
\* record, with the steps up to the failed one and the context before the
\* failing node, and its response carries the id of that record.
C9_FailedRunHasRunId ==
  FailedLiveRunOver =>
    /\ inserts # <<>> /\ LastInsert.table = "runs" /\ LastInsert.accepted
    /\ LastInsert.status = "failed" /\ LastInsert.steps = steps
    /\ resp.sent /\ ~resp.ok /\ resp.has_run_id

\* C9 amended: every failed run of the function issues the insert of the
\* failed run record (status failed, the steps up to and including the
\* failed one, the context before the failing node) before it responds
\* {ok: false, error: "Run failed"} with status 500 and the step's error as
\* details; the response carries a run_id exactly when the persistence
\* collaborator accepted that insert.
C9_FailedRunRecorded ==
  /\ FailedLiveRunOver =>
       /\ inserts # <<>> /\ LastInsert.table = "runs"
       /\ LastInsert.status = "failed" /\ LastInsert.steps = steps
       /\ LastStep.status = "failed"
       /\ deepClone(LastInsert.output_json) = LastStep.input
       /\ resp.sent /\ ~resp.ok /\ resp.status = 500 /\ resp.error = "Run failed"
       /\ resp.details = LastStep.error
       /\ resp.has_run_id <=> LastInsert.accepted
  /\ (resp.sent /\ resp.error = "Run failed") => (inserts # <<>> /\ LastInsert.table = "runs")

\* a failed run of the function whose record the collaborator accepted,
\* after a step that succeeded
C9_Witness ==
  /\ FailedLiveRunOver /\ Len(steps) >= 2
  /\ LastInsert.table = "runs" /\ LastInsert.accepted /\ resp.has_run_id

\* the db_save steps of a run of the function
DbSaveSteps == {i \in StepIndexes : engine = "edge" /\ steps[i].node_type = "output.db_save"}
InsertsOf(id) == {k \in NodeInserts : inserts[k].node_id = id}

Trimmed(name) == IF name = " va_items " THEN "va_items" ELSE IF name = "  " THEN "" ELSE name

SinkSteps == {i \in StepIndexes : steps[i].node_type \in {"output.db_save", "output.export"}}
AcceptedInsertsOf(id) == {k \in InsertsOf(id) : inserts[k].accepted}
IsPrefix(a, b) == Len(a) <= Len(b) /\ SubSeq(b, 1, Len(a)) = a

\* in a failed run of the function, every db_save and export step that
\* succeeded has its accepted insert, and every insert is of a node with a step
PrefixCommitted ==
  (engine = "edge" /\ RunOver /\ HasFailedStep) =>
    /\ \A i \in SinkSteps : steps[i].status = "success" => AcceptedInsertsOf(steps[i].node_id) # {}
    /\ \A k \in NodeInserts : HasStep(inserts[k].node_id)

\* C11: node failures are not rolled back: while an invocation lasts the
\* calls issued to the persistence collaborator are inserts that only
\* accumulate, and when a run of the function has failed, every db_save and
\* export step that succeeded before the failing node still has its accepted
\* insert, and no node without a step has one.
C11_NoRollback == [][(pc # "done" => IsPrefix(inserts, inserts')) /\ PrefixCommitted']_vars

\* a run of the function failed at its third node after a db_save node
\* whose row was accepted
C11_Witness ==
  /\ engine = "edge" /\ pc = "done" /\ HasFailedStep /\ Len(steps) = 3
  /\ steps[2].node_type = "output.db_save" /\ steps[2].status = "success"
  /\ AcceptedInsertsOf(steps[2].node_id) # {}

\* C12: a scheduling failure aborts the run before any node executes and
\* before anything is persisted: when the order does not cover every node the
\* invocation has no step and issues no insert, not even into runs.
C12_SchedulingFailureLeavesNothing ==
  (engine # "none" /\ ~IsDag(runDoc)) => (steps = <<>> /\ inserts = <<>>)

\* the classify steps of a run of the function in live mode
LiveClassifySteps ==
  {i \in StepIndexes : engine = "edge" /\ RUN_MODE = "live" /\ steps[i].node_type = "ai.classify"}
\* the value the step read: its input path resolved on the context it saw
StepInput(i) == resolveJsonPath(Obj(steps[i].input), InputPath(StepNode(i).config))
Written(i, key) == IF key \in DOMAIN steps[i].output THEN steps[i].output[key] ELSE Undef

ExportSteps == {i \in StepIndexes : steps[i].node_type = "output.export"}

\* C14: the export executor normalizes the format in every mode: the export
\* record of a step that succeeded has format "json" or "csv", and for any
\* configured format other than "csv" it has format "json" and the
\* pretty-printed JSON of the resolved value as content; an export step
\* fails on a rejected insert only, never on its format.
C14_ExportFormatNormalized ==
  \A i \in ExportSteps :
    LET record == Written(i, "export")
        configured == StepNode(i).config.format
    IN /\ steps[i].status = "failed" => steps[i].error = "export failed"
       /\ steps[i].status = "success" =>
            /\ record.t = "object"
            /\ record.o["format"] \in {Str("json"), Str("csv")}
            /\ configured # Str("csv") =>
                 /\ record.o["format"] = Str("json")
                 /\ "content" \in DOMAIN record.o => record.o["content"] = Pretty(StepInput(i))

\* C15: the validator rejects a document with an export node whose format is
\* a string other than "json" and "csv".
C15_BadExportFormatRejected ==
  (/\ lastCheck.called
   /\ \E n \in SeqToSet(lastCheck.input.workflow.nodes) :
        /\ n.type = "output.export"
        /\ n.config.format.t = "string" /\ n.config.format.s \notin {"json", "csv"})
  => ~lastCheck.ok

\* the steps of condition nodes whose expression does not match the grammar
MalformedSteps ==
  {i \in StepIndexes :
     steps[i].node_type = "logic.condition" /\ ~StepNode(i).config.expression.matched}

\* C16: a condition expression that does not match the grammar is false and
\* does not throw: the step succeeds, and with a default_output configured
\* it selects that port and lists exactly the targets of the edges leaving it.
C16_MalformedIsFalse ==
  \A i \in MalformedSteps :
    LET default == StepNode(i).config.default_output
        out == Outgoing(runDoc, steps[i].node_id)
        taken == SelectSeq(out, LAMBDA e : Str(e.source.port_id) = default)
    IN /\ steps[i].status = "success"
       /\ default.t = "string" =>
            /\ steps[i].selected_output_port = default
            /\ steps[i].next_node_ids = [k \in DOMAIN taken |-> taken[k].target.node_id]

\* a run went down the default branch of a condition node whose expression
\* does not match, and ended in success
C16_Witness ==
  /\ pc = "done" /\ runStatus = "success"
  /\ \E i \in MalformedSteps :
       /\ steps[i].selected_output_port = Str("false")
       /\ steps[i].next_node_ids = <<"n4">> /\ HasStep("n4") /\ ~HasStep("n3")

\* the condition steps that compare with an ordering operator, in nodes
\* where the port taken tells the value of the expression
OrderingSteps ==
  {i \in ConditionSteps :
     /\ StepNode(i).config.expression.matched
     /\ StepNode(i).config.expression.op \in {">", "<", ">=", "<="}
     /\ StepNode(i).config.default_output.t = "string"
     /\ \E p \in OutputsOf(i) : p # StepNode(i).config.default_output}
LeftOf(i) == resolveOperand(Obj(steps[i].output), StepNode(i).config.expression.left)
RightOf(i) == resolveOperand(Obj(steps[i].output), StepNode(i).config.expression.right)
\* the step took the branch of a true expression
TookTrue(i) == steps[i].selected_output_port # StepNode(i).config.default_output

\* C17 as stated: an ordering comparison with an operand that is not a
\* number is false.
C17_NonNumberOrderingIsFalse ==
  \A i \in OrderingSteps :
    (LeftOf(i).t # "number" \/ RightOf(i).t # "number") => ~TookTrue(i)

\* the operands Number() turns into NaN, and the number it makes of the others
CoercesToNaN(v) ==
  \/ v.t \in {"undefined", "object", "NaN"}
  \/ v.t = "string" /\ v.s \notin {"", "1", "0.5"}
Coerced(v) ==
  CASE v.t = "number" -> v.n
    [] v.t = "null" -> 0
    [] v.t = "boolean" -> IF v = Bool(TRUE) THEN 100 ELSE 0
    [] v = Str("") -> 0
    [] v = Str("1") -> 100
    [] OTHER -> 50

\* C17 amended: an ordering comparison in which an operand coerces to NaN
\* under Number() (undefined, a non-numeric string, an object) is false;
\* null, false and the empty string count as 0, true as 1, a numeric string
\* as its number, and the comparison is then the numeric one.
C17_NaNOrderingIsFalse ==
  \A i \in OrderingSteps :
    LET op == StepNode(i).config.expression.op
        l == LeftOf(i)
        r == RightOf(i)
    IN IF CoercesToNaN(l) \/ CoercesToNaN(r) THEN ~TookTrue(i)
       ELSE TookTrue(i) <=> CASE op = ">" -> Coerced(l) > Coerced(r)
                              [] op = "<" -> Coerced(l) < Coerced(r)
                              [] op = ">=" -> Coerced(l) >= Coerced(r)
                              [] OTHER -> Coerced(l) <= Coerced(r)

\* a comparison with an undefined operand was false in one run
C17_Witness ==
  \E i \in OrderingSteps : LeftOf(i).t = "undefined" /\ ~TookTrue(i)

\* the positions of the steps of node id
StepsOf(id) == {i \in StepIndexes : steps[i].node_id = id}

\* C18: a run executes its nodes one after the other in topological order:
\* no node has two steps, the insert of a node is settled and its step
\* appended before the next node starts (the inserts of the node executors
\* follow the order of the steps), and for every edge whose endpoints both
\* executed the step of the source precedes the step of the target.
C18_SequentialTopologicalOrder ==
  engine # "none" =>
    /\ \A i, j \in StepIndexes : steps[i].node_id = steps[j].node_id => i = j
    /\ \A k \in NodeInserts : HasStep(inserts[k].node_id)
    /\ \A k, l \in NodeInserts :
         k < l => \A i \in StepsOf(inserts[k].node_id), j \in StepsOf(inserts[l].node_id) : i < j
    /\ \A e \in SeqToSet(runDoc.workflow.edges) :
         \A i \in StepsOf(e.source.node_id), j \in StepsOf(e.target.node_id) : i < j

\* a run is over in which a node with two incoming edges executed after both
\* of its predecessors, the later of them declared after it
C18_Witness ==
  /\ pc = "done" /\ runStatus = "success"
  /\ \E e, f \in SeqToSet(runDoc.workflow.edges) :
       /\ e # f /\ e.target.node_id = f.target.node_id
       /\ HasStep(e.source.node_id) /\ HasStep(f.source.node_id) /\ HasStep(e.target.node_id)
       /\ e.source.node_id = "n3" /\ e.target.node_id = "n2"

\* the completion requests of node id
RequestsOf(id) == {k \in DOMAIN requests : requests[k] = id}
RejectedInserts == {k \in NodeInserts : ~inserts[k].accepted}

\* C19: no external call is issued twice: in one run a node sends at most one
\* completion request and issues at most one insert, and a rejected insert is
\* the last call of the node executors, its node's step is failed and the
\* run is failed.
C19_NoRetry ==
  /\ \A id \in {requests[k] : k \in DOMAIN requests} : Cardinality(RequestsOf(id)) = 1
  /\ \A id \in {inserts[k].node_id : k \in NodeInserts} : Cardinality(InsertsOf(id)) = 1
  /\ \A k \in RejectedInserts :
       /\ \A l \in NodeInserts : l <= k
       /\ steps # <<>> /\ LastStep.node_id = inserts[k].node_id /\ LastStep.status = "failed"
       /\ runStatus = "failed"

\* a live run is over in which one node sent its completion request and a
\* later node's insert was rejected
C19_Witness ==
  /\ pc = "done" /\ runStatus = "failed" /\ requests # <<>>
  /\ \E k \in RejectedInserts : inserts[k].node_id \notin SeqToSet(requests)

\* the inserts into runs, and those the collaborator accepted
RunInserts == {k \in DOMAIN inserts : inserts[k].table = "runs"}
WrittenRuns == {k \in RunInserts : inserts[k].accepted}
\* an invocation of the function that reached the loop is over
LiveRunOver == pc = "done" /\ engine = "edge" /\ IsDag(runDoc)

\* C20 as stated: a live run that reached node execution has written exactly
\* one run record, after the last step, and its status is the outcome
\* returned to the caller.
C20_OneRunRecordWritten ==
  LiveRunOver =>
    /\ Cardinality(WrittenRuns) = 1
    /\ \A k \in WrittenRuns :
         /\ k = Len(inserts) /\ inserts[k].steps = steps
         /\ (inserts[k].status = "success") <=> resp.ok

\* C20 amended: a live run that reached node execution issues exactly one
\* insert into runs, as its last call and with all the steps: with status
\* failed when a step failed, else with status success and the terminal
\* context; none is issued before the loop is over.  When the insert is
\* accepted the recorded status is the outcome returned; when it is rejected
\* no record is written, the response is not ok and carries no run id.
C20_OneRunInsertIssued ==
  /\ (engine = "edge" /\ pc \in {"loop", "persist"}) => RunInserts = {}
  /\ LiveRunOver =>
       /\ Cardinality(RunInserts) = 1
       /\ \A k \in RunInserts :
            /\ k = Len(inserts) /\ inserts[k].steps = steps
            /\ (inserts[k].status = "failed") <=> HasFailedStep
            /\ inserts[k].status \in {"success", "failed"}
            /\ inserts[k].status = "success" => inserts[k].output_json = ctx
            /\ IF inserts[k].accepted
               THEN /\ (inserts[k].status = "success") <=> resp.ok
                    /\ resp.has_run_id
               ELSE ~resp.ok /\ ~resp.has_run_id

\* a live run whose nodes all succeeded is over, its insert into runs was
\* rejected and the caller got an error
C20_Witness ==
  /\ LiveRunOver /\ ~HasFailedStep /\ Len(steps) >= 2
  /\ \E k \in RunInserts : ~inserts[k].accepted /\ inserts[k].status = "success"
  /\ ~resp.ok /\ resp.status = 500

\* the same invocation served alone, from where it stands to its end
RECURSIVE Alone(_, _)
Alone(inv, runMode) ==
  CASE inv.pc = "await" -> Alone(settleNode(inv), runMode)
    [] inv.pc = "loop" /\ inv.idx > Len(inv.ordered) -> [inv EXCEPT !.pc = "done", !.status = "success"]
    [] inv.pc = "loop" /\ ~IsActive(inv.active, inv.ordered[inv.idx]) ->
         Alone([inv EXCEPT !.idx = @ + 1], runMode)
    [] inv.pc = "loop" -> Alone(beginNode(inv, inv.ctx, runMode), runMode)
    [] OTHER -> inv
\* what a run leaves: its context, its active set, its steps, its status
Outcome(inv) == <<inv.ctx, inv.active, inv.steps, inv.status>>
Started == {i \in DOMAIN invocations : invocations[i].pc \notin {"none", "limited"}}

\* C21: interleaved invocations are independent: wherever an invocation
\* stands, between the awaits of the others, finishing it alone gives the
\* context, the active set and the steps of the same request served alone
\* from its start.
C21_RunsAreIndependent ==
  \A i \in Started :
    LET inv == invocations[i]
    IN Outcome(Alone(inv, RUN_MODE)) =
         Outcome(Alone(NewInvocation(inv.doc, inv.override, inv.reply, inv.accepted), RUN_MODE))

\* two invocations of different documents are both suspended in the middle
\* of their runs
C21_Witness ==
  /\ Started = Invocations
  /\ \A i \in Invocations : invocations[i].pc = "await" /\ invocations[i].idx > 1
  /\ invocations[1].doc # invocations[2].doc
  /\ invocations[1].ctx # invocations[2].ctx

\* the first of the values that is neither undefined nor null
RECURSIVE FirstGiven(_)
FirstGiven(values) ==
  IF values = <<>> THEN EmptyObj
  ELSE IF Head(values).t \notin {"undefined", "null"} THEN Head(values)
  ELSE FirstGiven(Tail(values))
\* the payload the precedence chooses for the document of the run
Chosen(override) ==
  FirstGiven(<<override>> \o
             (IF HasNode(runDoc, EntryId)
              THEN LET config == FindNode(runDoc, EntryId).config
                   IN <<config.sample_input, config.sample_payload, config.payload>>
              ELSE <<>>))
InLoop == engine # "none" /\ IsDag(runDoc) /\ pc # "idle"

\* C22: in both engines the run's payload is the override if given, else the
\* trigger's sample_input, else its sample_payload, else its payload, else
\* the empty object, and the first node starts from the context {input: P}.
C22_InitialContext ==
  /\ InLoop =>
       /\ \E override \in InputOverrides : initialInput = Chosen(override)
       /\ steps # <<>> => steps[1].input = [k \in {"input"} |-> initialInput]
  /\ \A doc \in Definitions, override \in InputOverrides :
       InitialInput(doc, override) = initialInputOfRequest(doc, override)

\* a run of each engine started from the sample_payload of a trigger whose
\* sample_input is null
FromSamplePayload ==
  /\ InLoop /\ steps # <<>>
  /\ FindNode(runDoc, EntryId).config.sample_input = Null
  /\ initialInput = FindNode(runDoc, EntryId).config.sample_payload
  /\ initialInput.t = "object"
C22_Witness == FromSamplePayload /\ engine = "edge" /\ pc = "done"

\* the validator accepted its input
Accepted == lastCheck.called /\ lastCheck.ok
AcceptedNodes == lastCheck.input.workflow.nodes
AcceptedEdges == lastCheck.input.workflow.edges
Owns(ports, id) == \E k \in DOMAIN ports : ports[k] = id

\* C23: an accepted document has exactly one node of a trigger type, and
\* entry_node_id is the id of that node.
C23_OneTriggerIsEntry ==
  Accepted =>
    LET triggers == {i \in DOMAIN AcceptedNodes : AcceptedNodes[i].type \in triggerNodeTypes}
    IN /\ Cardinality(triggers) = 1
       /\ \A i \in triggers : lastCheck.input.workflow.entry_node_id = AcceptedNodes[i].id

\* the validator accepted a document whose one trigger is a webhook
C23_Witness ==
  /\ Accepted
  /\ \E i \in DOMAIN AcceptedNodes :
       /\ AcceptedNodes[i].type = "trigger.webhook"
       /\ lastCheck.input.workflow.entry_node_id = AcceptedNodes[i].id

\* C24: in an accepted document every logic.condition node has at least two
\* output ports and a string default_output that is the id of one of them.
C24_ConditionHasDefaultPort ==
  Accepted =>
    \A i \in DOMAIN AcceptedNodes :
      AcceptedNodes[i].type = "logic.condition" =>
        /\ Len(AcceptedNodes[i].outputs) >= 2
        /\ AcceptedNodes[i].config.default_output.t = "string"
        /\ Owns(AcceptedNodes[i].outputs, AcceptedNodes[i].config.default_output.s)

\* the validator accepted a document with a condition node
C24_Witness ==
  /\ Accepted
  /\ \E i \in DOMAIN AcceptedNodes :
       AcceptedNodes[i].type = "logic.condition" /\ Len(AcceptedNodes[i].outputs) = 2

\* C25: in an accepted document every edge leaves an output port of a node
\* of the document and enters an input port of a node of the document.
C25_EdgesJoinPorts ==
  Accepted =>
    \A k \in DOMAIN AcceptedEdges :
      LET e == AcceptedEdges[k]
      IN /\ \E i \in DOMAIN AcceptedNodes :
              AcceptedNodes[i].id = e.source.node_id
              /\ Owns(AcceptedNodes[i].outputs, e.source.port_id)
         /\ \E i \in DOMAIN AcceptedNodes :
              AcceptedNodes[i].id = e.target.node_id
              /\ Owns(AcceptedNodes[i].inputs, e.target.port_id)

\* the validator accepted a document with three edges
C25_Witness == Accepted /\ Len(AcceptedEdges) >= 3

\* C26: in an accepted document no two nodes share an id and no two edges
\* share an id.
C26_IdsDistinct ==
  Accepted =>
    /\ \A i, j \in DOMAIN AcceptedNodes : AcceptedNodes[i].id = AcceptedNodes[j].id => i = j
    /\ \A i, j \in DOMAIN AcceptedEdges : AcceptedEdges[i].id = AcceptedEdges[j].id => i = j

\* the validator accepted the result of a connect command, with its new edge
C26_Witness ==
  /\ Accepted /\ lastEdit.issued /\ lastEdit.ok /\ lastCheck.input = lastEdit.after
  /\ Len(AcceptedEdges) = Len(lastEdit.before.workflow.edges) + 1

\* the cross-referential rule an issue of the validator is about
Kind(message) ==
  CASE message = "Exactly one trigger node is required." -> "trigger count"
    [] message = "entry_node_id must point to the trigger node." -> "entry_node_id"
    [] message \in {"Duplicate node id", "Duplicate edge id"} -> "duplicate ids"
    [] message \in {"Trigger node must have no inputs.",
                    "Non-trigger node must have at least one input."} -> "input ports"
    [] message \in {"Condition node must have at least two outputs.",
                    "Condition node default_output must match an output port id."} ->
         "condition outputs"
    [] message \in {"Edge source node not found.", "Edge target node not found.",
                    "Edge source port must reference an output port.",
                    "Edge target port must reference an input port."} -> "edge ports"
    [] OTHER -> "schema"
\* the rules a document breaks, each read off the document itself
Broken(doc) ==
  LET ns == doc.workflow.nodes
      es == doc.workflow.edges
      triggers == {i \in DOMAIN ns : ns[i].type \in triggerNodeTypes}
  IN (IF Cardinality(triggers) # 1 THEN {"trigger count"} ELSE {})
     \cup (IF \E i \in triggers : \A j \in triggers : i <= j /\ ns[i].id # doc.workflow.entry_node_id
           THEN {"entry_node_id"} ELSE {})
     \cup (IF \/ \E i, j \in DOMAIN ns : i # j /\ ns[i].id = ns[j].id
              \/ \E i, j \in DOMAIN es : i # j /\ es[i].id = es[j].id
           THEN {"duplicate ids"} ELSE {})
     \cup (IF \E i \in DOMAIN ns : (i \in triggers) # (ns[i].inputs = <<>>)
           THEN {"input ports"} ELSE {})
     \cup (IF \E i \in DOMAIN ns :
                /\ ns[i].type = "logic.condition"
                /\ \/ Len(ns[i].outputs) < 2
                   \/ ns[i].config.default_output.t # "string"
                   \/ ~Owns(ns[i].outputs, ns[i].config.default_output.s)
           THEN {"condition outputs"} ELSE {})
     \cup (IF \E k \in DOMAIN es :
                \/ ~\E i \in DOMAIN ns : ns[i].id = es[k].source.node_id
                                         /\ Owns(ns[i].outputs, es[k].source.port_id)
                \/ ~\E i \in DOMAIN ns : ns[i].id = es[k].target.node_id
                                         /\ Owns(ns[i].inputs, es[k].target.port_id)
           THEN {"edge ports"} ELSE {})
     \cup (IF ~IsDag(doc) /\ UniqueIds(ns, {}) = [i \in DOMAIN ns |-> ns[i].id]
           THEN {"DAG"} ELSE {})

\* C27 as stated: one call of the validator returns at least one error for
\* each cross-referential rule the document breaks, the DAG rule included.
C27_EveryBrokenRuleReported ==
  lastCheck.called =>
    Broken(lastCheck.input) \subseteq
      {Kind(issue[1]) : issue \in validateWorkflowDoc(lastCheck.input).errors}

\* C28: a semantic edit is applied wholesale or not at all: a command that
\* returns ok returns a workflow that passes the validator, which becomes the
\* store's document, the document given being left as it was (the result is
\* a copy of it with one more edge); a command that does not return ok
\* returns no workflow and the store's document is unchanged.
C28_EditWholesaleOrNotAtAll ==
  lastEdit.issued =>
    LET result == applySemanticCommand(lastEdit.before, lastEdit.source, lastEdit.target)
        before == lastEdit.before.workflow
        after == lastEdit.after.workflow
    IN /\ lastEdit.ok = result.ok
       /\ lastEdit.ok =>
            /\ validateWorkflowDoc(lastEdit.after).ok
            /\ lastEdit.after = result.workflow
            /\ after.nodes = before.nodes
            /\ Len(after.edges) = Len(before.edges) + 1
            /\ SubSeq(after.edges, 1, Len(before.edges)) = before.edges
       /\ ~lastEdit.ok => (result.workflow = NoDoc /\ lastEdit.after = lastEdit.before)

\* the validator rejected the candidate of a command and the store kept its
\* document
C28_Witness ==
  /\ lastEdit.issued /\ ~lastEdit.ok
  /\ lastEdit.message = "Edit rejected by workflow validator."
  /\ current = lastEdit.before
  /\ connectNodes(lastEdit.before, lastEdit.source, lastEdit.target) # NoDoc

\* the calls of the text model made for the request, and whether the draft
\* of call k, normalised, passes the validator
CallCount == Len(generation.calls)
Parsed(k) == generation.calls[k].content.ok /\ generation.calls[k].content.parses
PassedValidation(k) ==
  Parsed(k) /\ validateWorkflowDoc(normalizeWorkflowDoc(generation.calls[k].content.draft)).ok

\* C29: a request makes at most two calls of the text model, the second only
\* after the first draft failed validation and seeded with its errors; a
\* response that is ok carries a document that passes the validator; when the
\* second draft fails validation too the response is the validation failure.
C29_AtMostOneRepair ==
  /\ CallCount <= 2
  /\ CallCount = 2 =>
       /\ Parsed(1) /\ ~PassedValidation(1)
       /\ generation.calls[1].retryErrors = {}
       /\ generation.calls[2].retryErrors =
            validateWorkflowDoc(normalizeWorkflowDoc(generation.calls[1].content.draft)).errors
       /\ generation.calls[2].retryErrors # {}
  /\ generation.response.ok =>
       /\ validateWorkflowDoc(generation.response.workflow_doc).ok
       /\ CallCount >= 1 /\ PassedValidation(CallCount)
  /\ (generation.pc = "done" /\ CallCount = 2 /\ Parsed(2) /\ ~PassedValidation(2)) =>
       (~generation.response.ok /\ generation.response.status = 422)
  /\ (generation.pc = "retry") => (CallCount = 1 /\ Parsed(1) /\ ~PassedValidation(1))

\* the first draft failed validation and the repaired one was returned
C29_Witness ==
  /\ generation.pc = "done" /\ CallCount = 2 /\ generation.response.ok
  /\ generation.response.workflow_doc # generation.calls[2].content.draft

\* save or duplicate writes the store's document to the workflows table
PersistsCurrent == current # NoDoc /\ current' = current /\ stored' # stored /\ stored' = current

\* C30: whatever store operations came before (setWorkflow, patchNode, accepted
\* semantic edits), the definition_json that save or duplicate writes to the
\* workflows table passes the document validator.
C30_PersistedIsValidated ==
  [][PersistsCurrent => validateWorkflowDoc(stored').ok]_vars

\* the step records of a run in progress form a chain
SnapshotChain ==
  /\ steps # <<>> => steps[1].input = [k \in {"input"} |-> initialInput]
  /\ \A i \in StepIndexes : i > 1 => steps[i].input = steps[i - 1].output

\* a step of the same invocation leaves the records already appended alone
RecordsKept == (steps # <<>> /\ pc' # "idle") => IsPrefix(steps, steps')

\* C31: the input snapshot of the first step is {input: initial payload}, the
\* input snapshot of every later step is the output snapshot of the step
\* before it, and a record already appended never changes while later nodes
\* execute and write to the context.
C31_SnapshotChain == []SnapshotChain /\ [][RecordsKept]_vars

\* a run of three steps in which the context grew after the first record
C31_Witness ==
  /\ Len(steps) >= 3
  /\ steps[1].output = steps[1].input
  /\ steps[2].output # steps[2].input
  /\ steps[3].output # steps[3].input

\* the context keys the executor of a step's node assigns
OwnKeys(i) ==
  LET config == StepNode(i).config
  IN CASE steps[i].node_type \in {"ai.summarize"} -> {OutputKey(config, "summary")}
       [] steps[i].node_type = "ai.classify" -> {OutputKey(config, "label"), ConfidenceKey(config)}
       [] steps[i].node_type = "ai.extract_fields" -> {OutputKey(config, "extracted")}
       [] steps[i].node_type = "ai.generate_report" -> {OutputKey(config, "report")}
       [] steps[i].node_type = "logic.delay" -> {"delay_applied"}
       [] steps[i].node_type = "output.db_save" -> {"db_save"}
       [] steps[i].node_type = "output.export" -> {"export"}
       [] OTHER -> {}
SucceededSteps == {i \in StepIndexes : steps[i].status = "success"}

\* C32: a trigger or condition step has an output snapshot equal to its
\* input snapshot; selected_output_port is non-null only on condition steps;
\* a successful step of any other type adds, removes or alters no key of the
\* context other than the output keys of its node.
C32_FrameOfExecutors ==
  \A i \in StepIndexes :
    /\ (steps[i].node_type \in triggerNodeTypes \cup {"logic.condition"}) =>
         (steps[i].status = "success" /\ steps[i].output = steps[i].input)
    /\ steps[i].selected_output_port # Null => steps[i].node_type = "logic.condition"
    /\ i \in SucceededSteps =>
         /\ DOMAIN steps[i].input \ OwnKeys(i) = DOMAIN steps[i].output \ OwnKeys(i)
         /\ \A k \in DOMAIN steps[i].input \ OwnKeys(i) : steps[i].output[k] = steps[i].input[k]

\* a condition step chose a port, and a later step wrote its key into a
\* context that already held two others
C32_Witness ==
  /\ \E i \in SucceededSteps :
       steps[i].node_type = "logic.condition" /\ steps[i].selected_output_port # Null
  /\ \E i \in SucceededSteps :
       /\ OwnKeys(i) # {} /\ OwnKeys(i) \subseteq DOMAIN steps[i].output
       /\ Cardinality(DOMAIN steps[i].input \ OwnKeys(i)) >= 2

\* the call is an extraction in the given mode
Extracted(modes) == call.fn = "extract_fields" /\ call.args[1] \in modes
SpecKeys(fields) == {FieldKey(fields[i]) : i \in DOMAIN fields}

\* C33: extract_fields writes an object whose keys are exactly the keys of
\* the configured field specs, in the simulator, in simulate mode and in live
\* mode whatever the reply holds; simulated, every key has the zero value of
\* the type of a spec of that key.
C33_ExtractedKeysAreTheSpecKeys ==
  call.fn = "extract_fields" =>
    LET fields == call.args[2]
    IN /\ call.result.t = "object"
       /\ DOMAIN call.result.o = SpecKeys(fields)
       /\ \A k \in DOMAIN call.result.o : call.result.o[k].t \notin {"undefined", "NaN"}
       /\ Extracted({"browser", "simulate"}) =>
            \A k \in DOMAIN call.result.o :
              /\ call.result.o[k] \in {Str(""), Num(0), Bool(FALSE), Arr(<<>>)}
              /\ \E i \in DOMAIN fields :
                   FieldKey(fields[i]) = k /\ call.result.o[k] = ZeroOf(fields[i].type)

\* a live reply that holds a key outside the spec and lacks a configured one
C33_Witness ==
  /\ Extracted({"live"}) /\ call.args[3].t = "object"
  /\ DOMAIN call.args[3].o \ SpecKeys(call.args[2]) # {}
  /\ SpecKeys(call.args[2]) \ DOMAIN call.args[3].o # {}
  /\ \E k \in DOMAIN call.result.o : call.result.o[k] \notin {Str(""), Num(0), Bool(FALSE), Arr(<<>>)}

\* the classifier's score of a label: 2 on a substring hit, else 1
Classified == call.fn = "classifyText"
Hit(label) == StringifiedIncludes(call.args[1], ToLowerCase(label))
Score(label) == IF Hit(label) THEN 2 ELSE 1
TopLabels == {l \in SeqToSet(call.args[2]) : \A m \in SeqToSet(call.args[2]) : Score(m) <= Score(l)}
\* a < b in the order of the code units: capitals before lower-case letters
CodeUnitOrder == <<"", "Lead", "admin", "lead", "operations", "other", "reporting">>
CodeUnitBefore(a, b) ==
  (CHOOSE i \in DOMAIN CodeUnitOrder : CodeUnitOrder[i] = a)
    < (CHOOSE i \in DOMAIN CodeUnitOrder : CodeUnitOrder[i] = b)
ConfidenceFollowsHit(result) ==
  result.confidence = IF result.label.t = "string" /\ Hit(result.label.s) THEN Num(92) ELSE Num(67)

\* C34 as stated: the classifier returns the lexicographically smallest of
\* the labels with the highest score, with confidence 0.92 exactly when that
\* label is a substring hit and 0.67 otherwise, and a second call returns the
\* same pair.
C34_LexicographicallySmallest ==
  Classified =>
    LET result == call.result[1]
    IN /\ result.label.t = "string" /\ result.label.s \in TopLabels
       /\ \A m \in TopLabels : ~CodeUnitBefore(m, result.label.s)
       /\ ConfidenceFollowsHit(result)
       /\ call.result[2] = result

\* C34 amended: with an empty label list the classifier returns "general"
\* with confidence 0.67; otherwise it returns, of the labels with the highest
\* score, the one localeCompare sorts first, with confidence 0.92 exactly
\* when that label is a substring hit and 0.67 otherwise; a second call
\* returns the same pair.
C34_FirstInCollationOrder ==
  Classified =>
    LET result == call.result[1]
    IN /\ call.args[2] = <<>> => result = [label |-> Str("general"), confidence |-> Num(67)]
       /\ call.args[2] # <<>> =>
            /\ result.label.t = "string" /\ result.label.s \in TopLabels
            /\ \A m \in TopLabels : ~Before(m, result.label.s)
            /\ result.confidence = IF Hit(result.label.s) THEN Num(92) ELSE Num(67)
       /\ call.result[2] = result

\* a hit on a capitalised label that is listed first but does not sort first
C34_Witness ==
  /\ Classified /\ Len(call.args[2]) = 3
  /\ call.result[1] = [label |-> Str("Lead"), confidence |-> Num(92)]
  /\ call.args[1] = Str("Lead Triage")

Resolved == call.fn = "resolveJsonPath"
ExamplePath == <<"$", ".", "a", ".", "b", "[", "0", "]">>
ExampleContext == Obj([k \in {"a"} |-> Obj([j \in {"b"} |-> Arr(<<Num(4200)>>)])])

\* C35: resolving a path string never throws and returns a value or
\* undefined; a path that does not start with "$" yields undefined; a path
\* whose walk meets an absent key, an index out of range or an intermediate
\* value that is not an object yields undefined; "$.a.b[0]" against
\* {a: {b: [42]}} yields 42.
C35_ResolveIsTotal ==
  Resolved =>
    LET input == call.args[1]
        chars == call.args[2]
    IN /\ (chars = <<>> \/ Head(chars) # "$") => call.result = Undef
       /\ (chars # <<>> /\ Head(chars) = "$") =>
            call.result = walkOwn(input, tokenizeJsonPath(chars))
       /\ (input = ExampleContext /\ chars = ExamplePath) => call.result = Num(4200)

\* the parts of a text between the occurrences of a separator
RECURSIVE Split(_, _)
Split(chars, sep) ==
  IF \A i \in DOMAIN chars : chars[i] # sep THEN <<chars>>
  ELSE LET k == CHOOSE i \in DOMAIN chars : chars[i] = sep /\ \A j \in 1..(i - 1) : chars[j] # sep
       IN <<SubSeq(chars, 1, k - 1)>> \o Split(Drop(chars, k), sep)

\* a reader of quoted cells: the text of a cell that starts after its
\* opening quote, a doubled quote standing for one
Unreadable == <<"unreadable">>
RECURSIVE ReadQuoted(_, _)
ReadQuoted(chars, text) ==
  IF chars = <<>> THEN [ok |-> FALSE, text |-> text, rest |-> <<>>]
  ELSE IF Head(chars) # "\"" THEN ReadQuoted(Tail(chars), Append(text, Head(chars)))
  ELSE IF Len(chars) >= 2 /\ chars[2] = "\"" THEN ReadQuoted(Drop(chars, 2), Append(text, "\""))
  ELSE [ok |-> TRUE, text |-> text, rest |-> Tail(chars)]

\* the cells of one line
RECURSIVE ReadLine(_)
ReadLine(chars) ==
  IF chars = <<>> \/ Head(chars) # "\"" THEN <<Unreadable>>
  ELSE LET cell == ReadQuoted(Tail(chars), <<>>)
       IN IF ~cell.ok THEN <<Unreadable>>
          ELSE IF cell.rest = <<>> THEN <<cell.text>>
          ELSE IF Head(cell.rest) # "," THEN <<Unreadable>>
          ELSE <<cell.text>> \o ReadLine(Tail(cell.rest))

\* the text a cell stands for: the string itself, else its JSON text
CellText(row, key) ==
  LET value == IF key \in DOMAIN row.o THEN row.o[key] ELSE Undef
  IN IF value.t = "string" THEN Chars(value.s)
     ELSE IF value.t \in {"undefined", "null"} THEN <<"\"", "\"">>
     ELSE StringifyChars(value)

Exported(format) == call.fn = "toCsv" /\ call.args[2] = format
Rows == call.args[1].o

\* C36: for a non-empty array of objects exported as csv, the text is one
\* header line of the first row's keys and then one line per row in input
\* order, each of one quoted cell per header key that reads back, quotes
\* undoubled and commas kept, as the text of the row's value; a value that
\* is not an array is exported as pretty-printed JSON whatever the format.
C36_CsvSerialization ==
  /\ (Exported(Str("csv")) /\ call.args[1].t = "array" /\ Rows # <<>>) =>
       LET lines == Split(call.result.o, "\n")
           headers == Keys(Rows[1])
       IN /\ call.result.t = "string"
          /\ Len(lines) = Len(Rows) + 1
          /\ Split(lines[1], ",") = [i \in DOMAIN headers |-> Chars(headers[i])]
          /\ \A r \in DOMAIN Rows :
               ReadLine(lines[r + 1]) = [i \in DOMAIN headers |-> CellText(Rows[r], headers[i])]
  /\ (call.fn = "toCsv" /\ call.args[1].t # "array") => call.result = Pretty(call.args[1])

\* the example: [{a: 1, b: "x"}, {a: 2, b: "y,z"}] exported as csv
C36_Witness ==
  /\ Exported(Str("csv"))
  /\ call.args[1] = Arr(<<Row(Num(100), Str("x"), Undef), Row(Num(200), Str("y,z"), Undef)>>)
  /\ call.result.o = <<"a", ",", "b", "\n",
                        "\"", "1", "\"", ",", "\"", "x", "\"", "\n",
                        "\"", "2", "\"", ",", "\"", "y", ",", "z", "\"">>

\* no node id has two step records, and there are no more steps than nodes
EachNodeAtMostOnce ==
  /\ \A i, j \in StepIndexes : steps[i].node_id = steps[j].node_id => i = j
  /\ Len(steps) <= Len(runDoc.workflow.nodes)
  /\ idx <= Len(ordered) + 1 /\ Len(ordered) <= Len(runDoc.workflow.nodes)
Settled == pc # "loop" /\ runStatus \in {"success", "failed"}

\* C37: a node id occurs in at most one step record and the steps never
\* outnumber the nodes; a run whose loop has started reaches success or
\* failed, every external call settling.
C37_RunsTerminate == []EachNodeAtMostOnce /\ ((pc = "loop") ~> Settled)

\* a run that succeeded after executing three nodes and passing over another
C37_Witness ==
  /\ Settled /\ runStatus = "success"
  /\ Len(steps) >= 3 /\ Len(steps) < Len(runDoc.workflow.nodes)

\* C38: the month's run records of the user never outnumber
\* RUN_WORKFLOW_MONTHLY_LIMIT, however the invocations interleave between the
\* count and the insert; an invocation that counted the limit or more
\* answers the limit error and executes no node.
C38_MonthlyLimitHolds ==
  /\ monthRuns <= RUN_WORKFLOW_MONTHLY_LIMIT
  /\ \A i \in DOMAIN invocations :
       LET inv == invocations[i]
       IN /\ inv.pc = "limited" => (inv.steps = <<>> /\ inv.runsCount >= RUN_WORKFLOW_MONTHLY_LIMIT)
          /\ inv.pc \in {"loop", "await", "done"} => inv.runsCount < RUN_WORKFLOW_MONTHLY_LIMIT

\* the delete commands applied, the node each reference resolves to (index 0:
\* none) and the edges of a document that touch a node id
Deleted == call.fn = "applySemanticCommand"
DeletedAt == FindRef(call.args[1], call.args[2])
Incident(edge, id) == edge.source.node_id = id \/ edge.target.node_id = id
Without(s, at) == [k \in 1..(Len(s) - 1) |-> IF k < at THEN s[k] ELSE s[k + 1]]

\* C39: a delete command whose reference resolves to the node with id
\* entry_node_id returns ok = false; after an accepted delete the returned
\* document has no edge whose source or target is the deleted node, every
\* other node is there as it was, every edge not incident to the deleted
\* node is there as it was, and nothing else of the document has changed.
C39_DeleteKeepsEntryAndEdges ==
  Deleted =>
    LET doc == call.args[1]
        before == doc.workflow
        result == call.result
    IN /\ (DeletedAt # 0 /\ before.nodes[DeletedAt].id = before.entry_node_id) => ~result.ok
       /\ result.ok =>
            LET target == before.nodes[DeletedAt]
                after == result.workflow.workflow
            IN /\ DeletedAt # 0
               /\ \A k \in DOMAIN after.edges : ~Incident(after.edges[k], target.id)
               /\ after.nodes = Without(before.nodes, DeletedAt)
               /\ after.edges = SelectSeq(before.edges, LAMBDA e : ~Incident(e, target.id))
               /\ result.workflow = [doc EXCEPT !.workflow.nodes = after.nodes,
                                                !.workflow.edges = after.edges]

\* a delete by name was accepted, took edges with it and left an edge, and a
\* delete of the entry node was refused
C39_Witness ==
  /\ Deleted /\ call.result.ok /\ call.args[2] = "export"
  /\ Len(call.result.workflow.workflow.edges) < Len(call.args[1].workflow.edges)
  /\ call.result.workflow.workflow.edges # <<>>

=============================================================================
